---- MODULE Spec2Model ----
(***************************************************************************)
(* A model of pinemcp's adapter layer: the eight backend adapters behind   *)
(* BaseDatabaseAdapter (connection state, transaction state, query         *)
(* validation, safeExecuteQuery, executeBatch) and the                     *)
(* DatabaseConnectionManager registry.                                     *)
(*                                                                         *)
(* An asynchronous method is modelled as the SET of its possible outcomes: *)
(* every await of a native driver call may resolve, reject with an Error   *)
(* or reject with a value that is not an Error.  An outcome is a record    *)
(*   [ad, threw, err, val, tr]                                             *)
(* holding the adapter afterwards, whether the method threw, the thrown    *)
(* value, the returned value and the trace of calls it made.               *)
(***************************************************************************)
EXTENDS Integers, Sequences, FiniteSets, Bags, TLC

VARIABLES
  ad,     \* the adapter instance under test (SpecAdapter)
  last,   \* the call in flight on the adapter: its input, outcome and trace
  hist,   \* what has happened to the adapter since its construction
  connections,        \* DatabaseConnectionManager.connections, in insertion order
  currentConnection,  \* DatabaseConnectionManager.currentConnection
  adapters,           \* the adapters the factory has created for the manager
  tasks,              \* the manager calls suspended at an await
  reply               \* the manager call made last and its outcome (SpecManager)

adapterVars == <<ad, last, hist>>

registryVars == <<connections, currentConnection, adapters, tasks, reply>>

vars == <<ad, last, hist, connections, currentConnection, adapters, tasks, reply>>

----------------------------------------------------------------------------
(* Bounds *)

\* the longest operations list handed to executeBatch
MaxOps == 2

\* the number of adapters addConnection creates in a run
MaxAdapters == 2

\* the number of manager calls that can be suspended at the same time
MaxTasks == 2

----------------------------------------------------------------------------
(* Backend kinds and the adapter instance *)

getSupportedTypes ==
  {"postgresql", "mysql", "sqlite", "redis", "mongodb", "cassandra", "mssql", "dynamodb"}

\* the two adapters that hold a pool and check a dedicated connection out of it
PooledTypes == {"postgresql", "mysql"}

\* The fields of an adapter instance.  `handle` is the native handle that
\* isConnected() reads (pg/mysql/mssql pool, sqlite db, redis/mongo/cassandra/
\* dynamodb client); `client` is the second handle some adapters keep (pg client,
\* mysql connection, mongo db, dynamodb docClient); `transactionClient` is the
\* pg transactionClient, the mysql transactionConnection or the mongo session;
\* `checkedOut` counts the pool connections checked out for a transaction and
\* not yet released.  TRUE stands for "non-null".
createDatabase(type) ==
  [ type              |-> type,
    connected         |-> FALSE,
    handle            |-> FALSE,
    client            |-> FALSE,
    inTransaction     |-> FALSE,
    transactionClient |-> FALSE,
    checkedOut        |-> 0 ]

----------------------------------------------------------------------------
(* Thrown values, events, outcomes *)

NoError == [isError |-> FALSE, msg |-> "", at |-> 0, prefix |-> ""]

\* `new Error(msg)` thrown by the call with identity `at`
NewError(msg, at) == [isError |-> TRUE, msg |-> msg, at |-> at, prefix |-> ""]

ErrorPrefix(type) ==
  CASE type = "postgresql" -> "PostgreSQL error"
    [] type = "mysql"      -> "MySQL error"
    [] type = "sqlite"     -> "SQLite error"
    [] type = "redis"      -> "Redis error"
    [] type = "mongodb"    -> "MongoDB error"
    [] type = "cassandra"  -> "Cassandra error"
    [] type = "mssql"      -> "MSSQL error"
    [] type = "dynamodb"   -> "DynamoDB error"

handleError(type, error) ==
  IF error.isError
    THEN error
    ELSE [error EXCEPT !.isError = TRUE, !.prefix = ErrorPrefix(type)]

Ev(name, phase, at, err) == [ev |-> name, ph |-> phase, at |-> at, err |-> err]

Ret(a, v, t) == [ad |-> a, threw |-> FALSE, err |-> NoError, val |-> v, tr |-> t]

Thr(a, e, t) == [ad |-> a, threw |-> TRUE, err |-> e, val |-> <<>>, tr |-> t]

\* `await S; F(result)`: a rejection of S propagates, a result continues in F
Then(S, F(_)) ==
  UNION { IF r.threw
            THEN {r}
            ELSE { [x EXCEPT !.tr = r.tr \o x.tr] : x \in F(r) }
          : r \in S }

\* `try { S } catch (error) { H(error) }`
Catch(S, H(_)) ==
  UNION { IF r.threw
            THEN { [x EXCEPT !.tr = r.tr \o x.tr] : x \in H(r) }
            ELSE {r}
          : r \in S }

\* a method call seen from its caller: call event, the method's own trace,
\* then the event of its return or throw
Call(name, at, S) ==
  { [r EXCEPT !.tr = <<Ev(name, "call", at, NoError)>> \o r.tr
                     \o <<Ev(name, IF r.threw THEN "throw" ELSE "ret", at, r.err)>>]
    : r \in S }

\* One awaited call of the native driver: it resolves, or rejects with an
\* Error, or rejects with a value that is not an Error.  Its event carries
\* the value it rejected with.
NativeCall(a, site, at) ==
  { Ret(a, <<>>, <<Ev(site, "native", at, NoError)>>) }
    \cup { LET e == [isError |-> b, msg |-> site, at |-> at, prefix |-> ""]
           IN  Thr(a, e, <<Ev(site, "native", at, e)>>) : b \in BOOLEAN }

\* a native call that settles without failing (a release, a destroy)
NativeSync(a, site, at) == { Ret(a, <<>>, <<Ev(site, "native", at, NoError)>>) }

----------------------------------------------------------------------------
(* Queries.  A query text is a sequence of tokens: ";" , " " (white space)  *)
(* and words, a word being a maximal run of other characters.  "{cmd}"      *)
(* stands for a serialized command object of the document and managed-NoSQL *)
(* adapters.  A value that is not a string has isString = FALSE.            *)

Str(text) == [isString |-> TRUE, text |-> text]

NotAString == [isString |-> FALSE, text |-> <<>>]

\* String.prototype.toLowerCase on the words of the alphabet
ToLower(tok) ==
  CASE tok \in {"DROP", "Drop"}   -> "drop"
    [] tok \in {"TABLE", "Table"} -> "table"
    [] tok = "DELETE"             -> "delete"
    [] tok = "FROM"               -> "from"
    [] tok = "SELECT"             -> "select"
    [] tok = "GET"                -> "get"
    [] tok = "PostgreSQL"         -> "postgresql"
    [] tok = "MySQL"              -> "mysql"
    [] tok = "SQLite"             -> "sqlite"
    [] tok = "Redis"              -> "redis"
    [] tok = "MongoDB"            -> "mongodb"
    [] tok = "Cassandra"          -> "cassandra"
    [] tok = "MSSQL"              -> "mssql"
    [] tok = "DynamoDB"           -> "dynamodb"
    [] tok = "Adapter"            -> "adapter"
    [] tok = "Database"           -> "database"
    [] OTHER                      -> tok

\* String.prototype.toUpperCase on the words of the alphabet
ToUpper(tok) ==
  CASE ToLower(tok) = "drop"   -> "DROP"
    [] ToLower(tok) = "table"  -> "TABLE"
    [] ToLower(tok) = "delete" -> "DELETE"
    [] ToLower(tok) = "from"   -> "FROM"
    [] ToLower(tok) = "select" -> "SELECT"
    [] ToLower(tok) = "get"    -> "GET"
    [] OTHER                   -> tok

\* the five regular expressions /;\s*w1\s+w2/i of validateQuery
dangerousPatterns ==
  { <<"drop", "table">>, <<"delete", "from">>, <<"truncate", "table">>,
    <<"alter", "table">>, <<"drop", "database">> }

AllSpaces(text, from, to) == \A n \in from..to : text[n] = " "

\* /;\s*w1\s+w2/ matches `text` with its ";" at position i
MatchesAt(text, i, words, fold(_)) ==
  /\ text[i] = ";"
  /\ \E j \in (i + 1)..Len(text) :
       /\ AllSpaces(text, i + 1, j - 1)
       /\ fold(text[j]) = words[1]
       /\ \E k \in (j + 2)..Len(text) :
            /\ AllSpaces(text, j + 1, k - 1)
            /\ fold(text[k]) = words[2]

\* a variant of the test whose patterns have no i flag
PatternTestCaseSensitive(words, text) ==
  \E i \in 1..Len(text) : MatchesAt(text, i, words, LAMBDA t : t)

\* RegExp.prototype.test with the i flag
PatternTest(words, text) ==
  \E i \in 1..Len(text) : MatchesAt(text, i, words, LAMBDA t : ToLower(t))

validateQuery(a, query) ==
  IF ~query.isString \/ query.text = <<>>
    THEN { Thr(a, NewError("Query must be a non-empty string", 0), <<>>) }
    ELSE IF \E pattern \in dangerousPatterns : PatternTest(pattern, query.text)
      THEN { Thr(a, NewError("Potentially dangerous query detected", 0), <<>>) }
      ELSE { Ret(a, <<>>, <<>>) }

\* The parameters argument: absent, an array, a truthy value that is not an
\* array (an object, a non-empty string), or a falsy one (null, 0, "").
ParameterValues == {"undefined", "array", "object", "falsy"}

Truthy(parameters) == parameters \in {"array", "object"}

validateParameters(a, parameters) ==
  IF Truthy(parameters) /\ parameters # "array"
    THEN { Thr(a, NewError("Parameters must be an array", 0), <<>>) }
    ELSE { Ret(a, <<>>, <<>>) }

\* the normalized QueryResult of one executed query
Result(query) == [of |-> query]

NotConnected(a, msg, at) == { Thr(a, NewError(msg, at), <<>>) }

----------------------------------------------------------------------------
(* PostgreSQLAdapter: handle = pool, client = client,                      *)
(* transactionClient = transactionClient                                   *)

PostgreSQL_connect(a) ==
  Catch(Then(NativeCall([a EXCEPT !.handle = TRUE], "pool.connect", 0),
             LAMBDA r : { Ret([r.ad EXCEPT !.client = TRUE, !.connected = TRUE], <<>>, <<>>) }),
        LAMBDA r : { Thr([r.ad EXCEPT !.connected = FALSE], handleError(a.type, r.err), <<>>) })

PostgreSQL_disconnect(a) ==
  LET released == IF a.transactionClient
                    THEN [a EXCEPT !.transactionClient = FALSE, !.checkedOut = @ - 1]
                    ELSE a
      a2 == [released EXCEPT !.client = FALSE]
  IN  Catch(Then(IF a2.handle
                   THEN Then(NativeCall(a2, "pool.end", 0),
                             LAMBDA r : { Ret([r.ad EXCEPT !.handle = FALSE], <<>>, <<>>) })
                   ELSE { Ret(a2, <<>>, <<>>) },
                 LAMBDA r : { Ret([r.ad EXCEPT !.connected = FALSE], <<>>, <<>>) }),
            LAMBDA r : { Thr(r.ad, handleError(a.type, r.err), <<>>) })

PostgreSQL_isConnected(a) == a.connected /\ a.handle

PostgreSQL_executeQuery(a, query, parameters, at) ==
  IF ~(a.transactionClient \/ a.client)
    THEN NotConnected(a, "Database not connected", at)
    ELSE Then(NativeCall(a, "client.query", at),
              LAMBDA r : { Ret(r.ad, <<Result(query)>>, <<>>) })

PostgreSQL_beginTransaction(a) ==
  IF a.transactionClient
    THEN { Thr(a, NewError("Transaction already in progress", 0), <<>>) }
    ELSE IF ~a.handle
      THEN { Thr(a, NewError("TypeError: cannot read properties of null", 0), <<>>) }
      ELSE Then(NativeCall(a, "pool.connect", 0),
                LAMBDA r : NativeCall([r.ad EXCEPT !.transactionClient = TRUE,
                                                   !.checkedOut = @ + 1], "BEGIN", 0))

PostgreSQL_commitTransaction(a) ==
  IF ~a.transactionClient
    THEN { Thr(a, NewError("No transaction in progress", 0), <<>>) }
    ELSE Then(NativeCall(a, "COMMIT", 0),
              LAMBDA r : { Ret([r.ad EXCEPT !.transactionClient = FALSE,
                                            !.checkedOut = @ - 1], <<>>, <<>>) })

PostgreSQL_rollbackTransaction(a) ==
  IF ~a.transactionClient
    THEN { Thr(a, NewError("No transaction in progress", 0), <<>>) }
    ELSE Then(NativeCall(a, "ROLLBACK", 0),
              LAMBDA r : { Ret([r.ad EXCEPT !.transactionClient = FALSE,
                                            !.checkedOut = @ - 1], <<>>, <<>>) })

PostgreSQL_isInTransaction(a) == a.transactionClient

----------------------------------------------------------------------------
(* MySQLAdapter: handle = pool, client = connection,                       *)
(* transactionClient = transactionConnection                               *)

MySQL_connect(a) ==
  Catch(Then(NativeCall([a EXCEPT !.handle = TRUE], "pool.getConnection", 0),
             LAMBDA r : { Ret([r.ad EXCEPT !.client = TRUE, !.connected = TRUE], <<>>, <<>>) }),
        LAMBDA r : { Thr([r.ad EXCEPT !.connected = FALSE], handleError(a.type, r.err), <<>>) })

MySQL_disconnect(a) ==
  LET released == IF a.transactionClient
                    THEN [a EXCEPT !.transactionClient = FALSE, !.checkedOut = @ - 1]
                    ELSE a
      a2 == [released EXCEPT !.client = FALSE]
  IN  Catch(Then(IF a2.handle
                   THEN Then(NativeCall(a2, "pool.end", 0),
                             LAMBDA r : { Ret([r.ad EXCEPT !.handle = FALSE], <<>>, <<>>) })
                   ELSE { Ret(a2, <<>>, <<>>) },
                 LAMBDA r : { Ret([r.ad EXCEPT !.connected = FALSE], <<>>, <<>>) }),
            LAMBDA r : { Thr(r.ad, handleError(a.type, r.err), <<>>) })

MySQL_isConnected(a) == a.connected /\ a.handle

MySQL_executeQuery(a, query, parameters, at) ==
  IF ~(a.transactionClient \/ a.client)
    THEN NotConnected(a, "Database not connected", at)
    ELSE Then(NativeCall(a, "connection.execute", at),
              LAMBDA r : { Ret(r.ad, <<Result(query)>>, <<>>) })

MySQL_beginTransaction(a) ==
  IF a.transactionClient
    THEN { Thr(a, NewError("Transaction already in progress", 0), <<>>) }
    ELSE IF ~a.handle
      THEN { Thr(a, NewError("TypeError: cannot read properties of null", 0), <<>>) }
      ELSE Then(NativeCall(a, "pool.getConnection", 0),
                LAMBDA r : NativeCall([r.ad EXCEPT !.transactionClient = TRUE,
                                                   !.checkedOut = @ + 1], "START TRANSACTION", 0))

MySQL_commitTransaction(a) ==
  IF ~a.transactionClient
    THEN { Thr(a, NewError("No transaction in progress", 0), <<>>) }
    ELSE Then(NativeCall(a, "COMMIT", 0),
              LAMBDA r : { Ret([r.ad EXCEPT !.transactionClient = FALSE,
                                            !.checkedOut = @ - 1], <<>>, <<>>) })

MySQL_rollbackTransaction(a) ==
  IF ~a.transactionClient
    THEN { Thr(a, NewError("No transaction in progress", 0), <<>>) }
    ELSE Then(NativeCall(a, "ROLLBACK", 0),
              LAMBDA r : { Ret([r.ad EXCEPT !.transactionClient = FALSE,
                                            !.checkedOut = @ - 1], <<>>, <<>>) })

MySQL_isInTransaction(a) == a.transactionClient

----------------------------------------------------------------------------
(* SQLiteAdapter: handle = db, inTransaction = inTransaction *)

SQLite_executeQuery(a, query, parameters, at) ==
  IF ~a.handle
    THEN NotConnected(a, "Database not connected", at)
    ELSE Catch(Then(NativeCall(a, "db.all", at),
                    LAMBDA r : { Ret(r.ad, <<Result(query)>>, <<>>) }),
               LAMBDA r : { Thr(r.ad, handleError(a.type, r.err), <<>>) })

SQLite_connect(a) ==
  Catch(Then(NativeCall([a EXCEPT !.handle = TRUE], "sqlite3.Database", 0),
          LAMBDA r : Then(Call("executeQuery", 0,
                               SQLite_executeQuery(r.ad, Str(<<"PRAGMA journal_mode">>), "undefined", 0)),
          LAMBDA s : Then(Call("executeQuery", 0,
                               SQLite_executeQuery(s.ad, Str(<<"PRAGMA foreign_keys">>), "undefined", 0)),
          LAMBDA t : { Ret([t.ad EXCEPT !.connected = TRUE], <<>>, <<>>) }))),
        LAMBDA r : { Thr([r.ad EXCEPT !.connected = FALSE], handleError(a.type, r.err), <<>>) })

SQLite_disconnect(a) ==
  Catch(Then(IF a.handle
               THEN Then(NativeCall(a, "db.close", 0),
                         LAMBDA r : { Ret([r.ad EXCEPT !.handle = FALSE], <<>>, <<>>) })
               ELSE { Ret(a, <<>>, <<>>) },
             LAMBDA r : { Ret([r.ad EXCEPT !.connected = FALSE], <<>>, <<>>) }),
        LAMBDA r : { Thr(r.ad, handleError(a.type, r.err), <<>>) })

SQLite_isConnected(a) == a.connected /\ a.handle

SQLite_beginTransaction(a) ==
  IF a.inTransaction
    THEN { Thr(a, NewError("Transaction already in progress", 0), <<>>) }
    ELSE Then(Call("executeQuery", 0,
                   SQLite_executeQuery(a, Str(<<"BEGIN TRANSACTION">>), "undefined", 0)),
              LAMBDA r : { Ret([r.ad EXCEPT !.inTransaction = TRUE], <<>>, <<>>) })

SQLite_commitTransaction(a) ==
  IF ~a.inTransaction
    THEN { Thr(a, NewError("No transaction in progress", 0), <<>>) }
    ELSE Then(Call("executeQuery", 0,
                   SQLite_executeQuery(a, Str(<<"COMMIT">>), "undefined", 0)),
              LAMBDA r : { Ret([r.ad EXCEPT !.inTransaction = FALSE], <<>>, <<>>) })

SQLite_rollbackTransaction(a) ==
  IF ~a.inTransaction
    THEN { Thr(a, NewError("No transaction in progress", 0), <<>>) }
    ELSE Then(Call("executeQuery", 0,
                   SQLite_executeQuery(a, Str(<<"ROLLBACK">>), "undefined", 0)),
              LAMBDA r : { Ret([r.ad EXCEPT !.inTransaction = FALSE], <<>>, <<>>) })

SQLite_isInTransaction(a) == a.inTransaction

----------------------------------------------------------------------------
(* RedisAdapter: handle = client, inTransaction = inTransaction *)

RedisCommands ==
  { "GET", "SET", "DEL", "EXISTS", "KEYS", "HGET", "HSET", "HGETALL", "LPUSH",
    "RPUSH", "LRANGE", "SADD", "SMEMBERS", "ZADD", "ZRANGE", "INFO", "PING" }

\* query.trim().split(' ')[0]?.toUpperCase() || '': the upper-cased run of
\* tokens before the first white space of the trimmed text ("?" stands for a
\* run of several tokens, such as "GET;", which is no command)
RedisCommand(text) ==
  LET nonSpace == { i \in 1..Len(text) : text[i] # " " }
  IN  IF nonSpace = {}
        THEN ""
        ELSE LET s == CHOOSE i \in nonSpace : \A j \in nonSpace : i <= j
                 ends == { j \in s..(Len(text) + 1) : j = Len(text) + 1 \/ text[j] = " " }
                 e == CHOOSE j \in ends : \A k \in ends : j <= k
             IN  IF e - s = 1 THEN ToUpper(text[s]) ELSE "?"

Redis_connect(a) ==
  Catch(Then(NativeCall([a EXCEPT !.handle = TRUE], "client.connect", 0),
             LAMBDA r : { Ret([r.ad EXCEPT !.connected = TRUE], <<>>, <<>>) }),
        LAMBDA r : { Thr([r.ad EXCEPT !.connected = FALSE], handleError(a.type, r.err), <<>>) })

Redis_disconnect(a) ==
  Catch(Then(IF a.handle
               THEN Then(NativeCall(a, "client.quit", 0),
                         LAMBDA r : { Ret([r.ad EXCEPT !.handle = FALSE], <<>>, <<>>) })
               ELSE { Ret(a, <<>>, <<>>) },
             LAMBDA r : { Ret([r.ad EXCEPT !.connected = FALSE], <<>>, <<>>) }),
        LAMBDA r : { Thr(r.ad, handleError(a.type, r.err), <<>>) })

Redis_isConnected(a) == a.connected /\ a.handle

Redis_executeQuery(a, query, parameters, at) ==
  IF ~a.handle
    THEN NotConnected(a, "Database not connected", at)
    ELSE Catch(IF ~query.isString
                 THEN { Thr(a, NewError("TypeError: query.trim is not a function", at), <<>>) }
                 ELSE IF RedisCommand(query.text) \notin RedisCommands
                   THEN { Thr(a, NewError("Unsupported Redis command", at), <<>>) }
                   ELSE Then(NativeCall(a, "client.command", at),
                             LAMBDA r : { Ret(r.ad, <<Result(query)>>, <<>>) }),
               LAMBDA r : { Thr(r.ad, handleError(a.type, r.err), <<>>) })

Redis_beginTransaction(a) ==
  IF a.inTransaction
    THEN { Thr(a, NewError("Transaction already in progress", 0), <<>>) }
    ELSE { Ret([a EXCEPT !.inTransaction = TRUE], <<>>, <<>>) }

Redis_commitTransaction(a) ==
  IF ~a.inTransaction
    THEN { Thr(a, NewError("No transaction in progress", 0), <<>>) }
    ELSE { Ret([a EXCEPT !.inTransaction = FALSE], <<>>, <<>>) }

Redis_rollbackTransaction(a) ==
  IF ~a.inTransaction
    THEN { Thr(a, NewError("No transaction in progress", 0), <<>>) }
    ELSE { Ret([a EXCEPT !.inTransaction = FALSE], <<>>, <<>>) }

Redis_isInTransaction(a) == a.inTransaction

----------------------------------------------------------------------------
(* MongoDBAdapter: handle = client, client = db,                           *)
(* transactionClient = session, inTransaction = inTransaction              *)

\* JSON.parse(query) yields a command object with a collection and a known
\* operation exactly for the texts that are one serialized command
IsCommandObject(query) == query.isString /\ query.text = <<"{cmd}">>

MongoDB_connect(a) ==
  Catch(Then(NativeCall([a EXCEPT !.handle = TRUE], "client.connect", 0),
             LAMBDA r : { Ret([r.ad EXCEPT !.client = TRUE, !.connected = TRUE], <<>>, <<>>) }),
        LAMBDA r : { Thr([r.ad EXCEPT !.connected = FALSE], handleError(a.type, r.err), <<>>) })

MongoDB_disconnect(a) ==
  Catch(Then(IF a.transactionClient
               THEN Then(NativeCall(a, "session.endSession", 0),
                         LAMBDA r : { Ret([r.ad EXCEPT !.transactionClient = FALSE], <<>>, <<>>) })
               ELSE { Ret(a, <<>>, <<>>) },
          LAMBDA r : Then(IF r.ad.handle
                            THEN Then(NativeCall(r.ad, "client.close", 0),
                                      LAMBDA s : { Ret([s.ad EXCEPT !.handle = FALSE,
                                                                    !.client = FALSE], <<>>, <<>>) })
                            ELSE { Ret(r.ad, <<>>, <<>>) },
          LAMBDA s : { Ret([s.ad EXCEPT !.connected = FALSE], <<>>, <<>>) })),
        LAMBDA r : { Thr(r.ad, handleError(a.type, r.err), <<>>) })

MongoDB_isConnected(a) == a.connected /\ a.handle /\ a.client

MongoDB_executeQuery(a, query, parameters, at) ==
  IF ~a.client
    THEN NotConnected(a, "Database not connected", at)
    ELSE Catch(IF ~IsCommandObject(query)
                 THEN { Thr(a, NewError("SyntaxError: not a command object", at), <<>>) }
                 ELSE Then(NativeCall(a, "collection.operation", at),
                           LAMBDA r : { Ret(r.ad, <<Result(query)>>, <<>>) }),
               LAMBDA r : { Thr(r.ad, handleError(a.type, r.err), <<>>) })

MongoDB_beginTransaction(a) ==
  IF a.inTransaction
    THEN { Thr(a, NewError("Transaction already in progress", 0), <<>>) }
    ELSE IF ~a.handle
      THEN { Thr(a, NewError("Database not connected", 0), <<>>) }
      ELSE Then(NativeCall(a, "client.startSession", 0),
                LAMBDA r : { Ret([r.ad EXCEPT !.transactionClient = TRUE,
                                              !.inTransaction = TRUE], <<>>, <<>>) })

MongoDB_commitTransaction(a) ==
  IF ~a.inTransaction \/ ~a.transactionClient
    THEN { Thr(a, NewError("No transaction in progress", 0), <<>>) }
    ELSE Then(NativeCall(a, "session.commitTransaction", 0),
         LAMBDA r : Then(NativeCall(r.ad, "session.endSession", 0),
         LAMBDA s : { Ret([s.ad EXCEPT !.transactionClient = FALSE,
                                       !.inTransaction = FALSE], <<>>, <<>>) }))

MongoDB_rollbackTransaction(a) ==
  IF ~a.inTransaction \/ ~a.transactionClient
    THEN { Thr(a, NewError("No transaction in progress", 0), <<>>) }
    ELSE Then(NativeCall(a, "session.abortTransaction", 0),
         LAMBDA r : Then(NativeCall(r.ad, "session.endSession", 0),
         LAMBDA s : { Ret([s.ad EXCEPT !.transactionClient = FALSE,
                                       !.inTransaction = FALSE], <<>>, <<>>) }))

MongoDB_isInTransaction(a) == a.inTransaction

----------------------------------------------------------------------------
(* CassandraAdapter: handle = client, inTransaction = inTransaction *)

Cassandra_connect(a) ==
  Catch(Then(NativeCall([a EXCEPT !.handle = TRUE], "client.connect", 0),
             LAMBDA r : { Ret([r.ad EXCEPT !.connected = TRUE], <<>>, <<>>) }),
        LAMBDA r : { Thr([r.ad EXCEPT !.connected = FALSE], handleError(a.type, r.err), <<>>) })

Cassandra_disconnect(a) ==
  Catch(Then(IF a.handle
               THEN Then(NativeCall(a, "client.shutdown", 0),
                         LAMBDA r : { Ret([r.ad EXCEPT !.handle = FALSE], <<>>, <<>>) })
               ELSE { Ret(a, <<>>, <<>>) },
             LAMBDA r : { Ret([r.ad EXCEPT !.connected = FALSE], <<>>, <<>>) }),
        LAMBDA r : { Thr(r.ad, handleError(a.type, r.err), <<>>) })

Cassandra_isConnected(a) == a.connected /\ a.handle

Cassandra_executeQuery(a, query, parameters, at) ==
  IF ~a.handle
    THEN NotConnected(a, "Database not connected", at)
    ELSE Catch(Then(NativeCall(a, "client.execute", at),
                    LAMBDA r : { Ret(r.ad, <<Result(query)>>, <<>>) }),
               LAMBDA r : { Thr(r.ad, handleError(a.type, r.err), <<>>) })

Cassandra_beginTransaction(a) == { Ret([a EXCEPT !.inTransaction = TRUE], <<>>, <<>>) }

Cassandra_commitTransaction(a) == { Ret([a EXCEPT !.inTransaction = FALSE], <<>>, <<>>) }

Cassandra_rollbackTransaction(a) == { Ret([a EXCEPT !.inTransaction = FALSE], <<>>, <<>>) }

Cassandra_isInTransaction(a) == a.inTransaction

----------------------------------------------------------------------------
(* MSSQLAdapter: handle = pool.  connect() never sets `connected`. *)

MSSQL_connect(a) == NativeCall([a EXCEPT !.handle = TRUE], "pool.connect", 0)

MSSQL_disconnect(a) ==
  IF a.handle
    THEN Then(NativeCall(a, "pool.close", 0),
              LAMBDA r : { Ret([r.ad EXCEPT !.handle = FALSE], <<>>, <<>>) })
    ELSE { Ret(a, <<>>, <<>>) }

MSSQL_isConnected(a) == a.connected /\ a.handle

MSSQL_executeQuery(a, query, parameters, at) ==
  IF ~a.handle
    THEN NotConnected(a, "Not connected to database", at)
    ELSE Then(NativeCall(a, "request.query", at),
              LAMBDA r : { Ret(r.ad, <<Result(query)>>, <<>>) })

MSSQL_beginTransaction(a) ==
  IF ~a.handle
    THEN { Thr(a, NewError("Not connected to database", 0), <<>>) }
    ELSE { Ret(a, <<>>, <<>>) }

MSSQL_commitTransaction(a) == { Ret(a, <<>>, <<>>) }

MSSQL_rollbackTransaction(a) == { Ret(a, <<>>, <<>>) }

MSSQL_isInTransaction(a) == FALSE

----------------------------------------------------------------------------
(* DynamoDBAdapter: handle = client, client = docClient.  disconnect()     *)
(* leaves `connected` set.                                                  *)

DynamoDB_connect(a) ==
  { Ret([a EXCEPT !.handle = TRUE, !.client = TRUE, !.connected = TRUE], <<>>, <<>>) }

DynamoDB_disconnect(a) ==
  IF a.handle
    THEN Then(NativeSync(a, "client.destroy", 0),
              LAMBDA r : { Ret([r.ad EXCEPT !.handle = FALSE, !.client = FALSE], <<>>, <<>>) })
    ELSE { Ret(a, <<>>, <<>>) }

DynamoDB_isConnected(a) == a.connected /\ a.handle

\* every failure inside the try block is replaced by a new Error
\* "Query execution failed: <message or 'Unknown error'>"
DynamoDB_executeQuery(a, query, parameters, at) ==
  IF ~a.client
    THEN NotConnected(a, "Not connected to database", at)
    ELSE Catch(IF ~IsCommandObject(query)
                 THEN { Thr(a, NewError("SyntaxError: not a command object", at), <<>>) }
                 ELSE Then(NativeCall(a, "docClient.send", at),
                           LAMBDA r : { Ret(r.ad, <<Result(query)>>, <<>>) }),
               LAMBDA r : { Thr(r.ad, [isError |-> TRUE,
                                       msg |-> IF r.err.isError THEN r.err.msg ELSE "Unknown error",
                                       at |-> at,
                                       prefix |-> "Query execution failed"], <<>>) })

DynamoDB_beginTransaction(a) == { Ret(a, <<>>, <<>>) }

DynamoDB_commitTransaction(a) == { Ret(a, <<>>, <<>>) }

DynamoDB_rollbackTransaction(a) == { Ret(a, <<>>, <<>>) }

DynamoDB_isInTransaction(a) == FALSE

----------------------------------------------------------------------------
(* Polymorphic dispatch: the adapter's class decides the method body *)

connect(a) ==
  CASE a.type = "postgresql" -> PostgreSQL_connect(a)
    [] a.type = "mysql"      -> MySQL_connect(a)
    [] a.type = "sqlite"     -> SQLite_connect(a)
    [] a.type = "redis"      -> Redis_connect(a)
    [] a.type = "mongodb"    -> MongoDB_connect(a)
    [] a.type = "cassandra"  -> Cassandra_connect(a)
    [] a.type = "mssql"      -> MSSQL_connect(a)
    [] a.type = "dynamodb"   -> DynamoDB_connect(a)

disconnect(a) ==
  CASE a.type = "postgresql" -> PostgreSQL_disconnect(a)
    [] a.type = "mysql"      -> MySQL_disconnect(a)
    [] a.type = "sqlite"     -> SQLite_disconnect(a)
    [] a.type = "redis"      -> Redis_disconnect(a)
    [] a.type = "mongodb"    -> MongoDB_disconnect(a)
    [] a.type = "cassandra"  -> Cassandra_disconnect(a)
    [] a.type = "mssql"      -> MSSQL_disconnect(a)
    [] a.type = "dynamodb"   -> DynamoDB_disconnect(a)

isConnected(a) ==
  CASE a.type = "postgresql" -> PostgreSQL_isConnected(a)
    [] a.type = "mysql"      -> MySQL_isConnected(a)
    [] a.type = "sqlite"     -> SQLite_isConnected(a)
    [] a.type = "redis"      -> Redis_isConnected(a)
    [] a.type = "mongodb"    -> MongoDB_isConnected(a)
    [] a.type = "cassandra"  -> Cassandra_isConnected(a)
    [] a.type = "mssql"      -> MSSQL_isConnected(a)
    [] a.type = "dynamodb"   -> DynamoDB_isConnected(a)

executeQuery(a, query, parameters, at) ==
  CASE a.type = "postgresql" -> PostgreSQL_executeQuery(a, query, parameters, at)
    [] a.type = "mysql"      -> MySQL_executeQuery(a, query, parameters, at)
    [] a.type = "sqlite"     -> SQLite_executeQuery(a, query, parameters, at)
    [] a.type = "redis"      -> Redis_executeQuery(a, query, parameters, at)
    [] a.type = "mongodb"    -> MongoDB_executeQuery(a, query, parameters, at)
    [] a.type = "cassandra"  -> Cassandra_executeQuery(a, query, parameters, at)
    [] a.type = "mssql"      -> MSSQL_executeQuery(a, query, parameters, at)
    [] a.type = "dynamodb"   -> DynamoDB_executeQuery(a, query, parameters, at)

beginTransaction(a) ==
  CASE a.type = "postgresql" -> PostgreSQL_beginTransaction(a)
    [] a.type = "mysql"      -> MySQL_beginTransaction(a)
    [] a.type = "sqlite"     -> SQLite_beginTransaction(a)
    [] a.type = "redis"      -> Redis_beginTransaction(a)
    [] a.type = "mongodb"    -> MongoDB_beginTransaction(a)
    [] a.type = "cassandra"  -> Cassandra_beginTransaction(a)
    [] a.type = "mssql"      -> MSSQL_beginTransaction(a)
    [] a.type = "dynamodb"   -> DynamoDB_beginTransaction(a)

commitTransaction(a) ==
  CASE a.type = "postgresql" -> PostgreSQL_commitTransaction(a)
    [] a.type = "mysql"      -> MySQL_commitTransaction(a)
    [] a.type = "sqlite"     -> SQLite_commitTransaction(a)
    [] a.type = "redis"      -> Redis_commitTransaction(a)
    [] a.type = "mongodb"    -> MongoDB_commitTransaction(a)
    [] a.type = "cassandra"  -> Cassandra_commitTransaction(a)
    [] a.type = "mssql"      -> MSSQL_commitTransaction(a)
    [] a.type = "dynamodb"   -> DynamoDB_commitTransaction(a)

rollbackTransaction(a) ==
  CASE a.type = "postgresql" -> PostgreSQL_rollbackTransaction(a)
    [] a.type = "mysql"      -> MySQL_rollbackTransaction(a)
    [] a.type = "sqlite"     -> SQLite_rollbackTransaction(a)
    [] a.type = "redis"      -> Redis_rollbackTransaction(a)
    [] a.type = "mongodb"    -> MongoDB_rollbackTransaction(a)
    [] a.type = "cassandra"  -> Cassandra_rollbackTransaction(a)
    [] a.type = "mssql"      -> MSSQL_rollbackTransaction(a)
    [] a.type = "dynamodb"   -> DynamoDB_rollbackTransaction(a)

isInTransaction(a) ==
  CASE a.type = "postgresql" -> PostgreSQL_isInTransaction(a)
    [] a.type = "mysql"      -> MySQL_isInTransaction(a)
    [] a.type = "sqlite"     -> SQLite_isInTransaction(a)
    [] a.type = "redis"      -> Redis_isInTransaction(a)
    [] a.type = "mongodb"    -> MongoDB_isInTransaction(a)
    [] a.type = "cassandra"  -> Cassandra_isInTransaction(a)
    [] a.type = "mssql"      -> MSSQL_isInTransaction(a)
    [] a.type = "dynamodb"   -> DynamoDB_isInTransaction(a)

----------------------------------------------------------------------------
(* Schema operations: getTableInfo, getTables, getDatabaseStats and        *)
(* validateConnection.  The backend holds one table (collection, key       *)
(* pattern), BackendTable, without secondary indexes; a look-up of any     *)
(* other name finds nothing.                                               *)

BackendTable == <<"x">>

\* the text of a catalogue query
SchemaQuery == Str(<<"SELECT", " ", "x">>)

\* a TableInfo
Descriptor(tableName) == [name |-> tableName]

\* `await this.executeQuery(...)` n times in a row, the calls numbered from `at`
RECURSIVE QueryChain(_, _, _)
QueryChain(a, at, n) ==
  IF n = 0
    THEN { Ret(a, <<>>, <<>>) }
    ELSE Then(Call("executeQuery", at, executeQuery(a, SchemaQuery, "array", at)),
              LAMBDA r : QueryChain(r.ad, at + 1, n - 1))

\* n awaited calls of the native driver in a row, numbered from `at`
RECURSIVE NativeChain(_, _, _, _)
NativeChain(a, site, at, n) ==
  IF n = 0
    THEN { Ret(a, <<>>, <<>>) }
    ELSE Then(NativeCall(a, site, at),
              LAMBDA r : NativeChain(r.ad, site, at + 1, n - 1))

\* `await Promise.all([this.executeQuery(...), ...])` over n queries: all of
\* them are started, and the error is that of a call that failed
RECURSIVE PromiseAll(_, _, _)
PromiseAll(a, at, n) ==
  IF n = 0
    THEN { Ret(a, <<>>, <<>>) }
    ELSE UNION { { [ad |-> a, threw |-> r.threw \/ s.threw, err |-> e, val |-> <<>>,
                    tr |-> r.tr \o s.tr]
                   : e \in (IF r.threw THEN {r.err} ELSE {})
                             \cup (IF s.threw THEN {s.err} ELSE {})
                             \cup (IF r.threw \/ s.threw THEN {} ELSE {NoError}) }
                 : r \in Call("executeQuery", at, executeQuery(a, SchemaQuery, "undefined", at)),
                   s \in PromiseAll(a, at + 1, n - 1) }

\* getTableInfo of the adapters that go through this.executeQuery: with
\* `lookup`, a first query for the table itself whose empty result returns
\* null; then n catalogue queries and the descriptor
TableInfoByQueries(a, tableName, lookup, n) ==
  IF lookup
    THEN Then(QueryChain(a, 1, 1),
              LAMBDA r : IF tableName # BackendTable
                           THEN { Ret(r.ad, <<>>, <<>>) }
                           ELSE Then(QueryChain(r.ad, 2, n),
                                     LAMBDA s : { Ret(s.ad, <<Descriptor(tableName)>>, <<>>) }))
    ELSE Then(QueryChain(a, 1, n),
              LAMBDA s : { Ret(s.ad, <<Descriptor(tableName)>>, <<>>) })

\* table, columns, indexes, constraints
PostgreSQL_getTableInfo(a, tableName) == TableInfoByQueries(a, tableName, TRUE, 3)

\* table, columns, indexes, constraints
MySQL_getTableInfo(a, tableName) == TableInfoByQueries(a, tableName, TRUE, 3)

\* sqlite_master, table_info, foreign_key_list, index_list
SQLite_getTableInfo(a, tableName) == TableInfoByQueries(a, tableName, TRUE, 3)

\* columns, indexes, constraints: no query asks whether the table exists
MSSQL_getTableInfo(a, tableName) == TableInfoByQueries(a, tableName, FALSE, 3)

Cassandra_getTableInfo(a, tableName) ==
  IF ~a.handle
    THEN NotConnected(a, "Database not connected", 0)
    ELSE Catch(Then(NativeCall(a, "client.execute", 1),
                    LAMBDA r : IF tableName # BackendTable
                                 THEN { Ret(r.ad, <<>>, <<>>) }
                                 ELSE Then(NativeChain(r.ad, "client.execute", 2, 2),
                                           LAMBDA s : { Ret(s.ad, <<Descriptor(tableName)>>, <<>>) })),
               LAMBDA r : { Thr(r.ad, handleError(a.type, r.err), <<>>) })

\* findOne({}) of a collection that does not exist resolves with null
MongoDB_getTableInfo(a, tableName) ==
  IF ~a.client
    THEN NotConnected(a, "Database not connected", 0)
    ELSE Catch(Then(NativeCall(a, "collection.findOne", 1),
                    LAMBDA r : IF tableName # BackendTable
                                 THEN { Ret(r.ad, <<>>, <<>>) }
                                 ELSE Then(NativeCall(r.ad, "collection.indexes", 2),
                                           LAMBDA s : { Ret(s.ad, <<Descriptor(tableName)>>, <<>>) })),
               LAMBDA r : { Thr(r.ad, handleError(a.type, r.err), <<>>) })

\* a fixed key/value descriptor, built without reading this.client
Redis_getTableInfo(a, tableName) == { Ret(a, <<Descriptor(tableName)>>, <<>>) }

\* DescribeTable: a result without `Table` throws "Table <name> not found"
DynamoDB_getTableInfo(a, tableName) ==
  IF ~a.handle
    THEN NotConnected(a, "Not connected to database", 0)
    ELSE Then(NativeCall(a, "client.send", 1),
              LAMBDA r : IF tableName # BackendTable
                           THEN { Thr(r.ad, NewError("Table not found", 1), <<>>) }
                           ELSE { Ret(r.ad, <<Descriptor(tableName)>>, <<>>) })

getTableInfo(a, tableName) ==
  CASE a.type = "postgresql" -> PostgreSQL_getTableInfo(a, tableName)
    [] a.type = "mysql"      -> MySQL_getTableInfo(a, tableName)
    [] a.type = "sqlite"     -> SQLite_getTableInfo(a, tableName)
    [] a.type = "redis"      -> Redis_getTableInfo(a, tableName)
    [] a.type = "mongodb"    -> MongoDB_getTableInfo(a, tableName)
    [] a.type = "cassandra"  -> Cassandra_getTableInfo(a, tableName)
    [] a.type = "mssql"      -> MSSQL_getTableInfo(a, tableName)
    [] a.type = "dynamodb"   -> DynamoDB_getTableInfo(a, tableName)

\* getTables of each adapter: the list query, then getTableInfo of the table
\* it names.  MSSQL and DynamoDB put a bare descriptor in the list when
\* getTableInfo throws; MongoDB and Redis read the backend directly.
getTables(a) ==
  LET listed(r) == { Ret(r.ad, <<[tables |-> <<BackendTable>>]>>, <<>>) }
      bare(r) == { Ret(r.ad, <<Descriptor(BackendTable)>>, <<>>) }
      info(r) == Call("getTableInfo", 2, getTableInfo(r.ad, BackendTable))
      wrapped(r) == { Thr(r.ad, handleError(a.type, r.err), <<>>) }
  IN  CASE a.type \in {"postgresql", "mysql", "sqlite"} ->
             Then(Then(QueryChain(a, 1, 1), info), listed)
        [] a.type = "mssql" ->
             Then(Then(QueryChain(a, 1, 1), LAMBDA r : Catch(info(r), bare)), listed)
        [] a.type = "cassandra" ->
             IF ~a.handle
               THEN NotConnected(a, "Database not connected", 0)
               ELSE Catch(Then(Then(NativeCall(a, "client.execute", 1), info), listed),
                          wrapped)
        [] a.type = "mongodb" ->
             IF ~a.client
               THEN NotConnected(a, "Database not connected", 0)
               ELSE Catch(Then(Then(NativeCall(a, "db.listCollections", 1),
                                    LAMBDA r : Then(NativeCall(r.ad, "collection.findOne", 2),
                                    LAMBDA s : NativeCall(s.ad, "collection.indexes", 3))),
                               listed),
                          wrapped)
        [] a.type = "redis" ->
             IF ~a.handle
               THEN NotConnected(a, "Database not connected", 0)
               ELSE Catch(Then(NativeCall(a, "client.keys", 1), listed), wrapped)
        [] a.type = "dynamodb" ->
             IF ~a.handle
               THEN NotConnected(a, "Not connected to database", 0)
               ELSE Then(Then(NativeCall(a, "client.send", 1),
                              LAMBDA r : Catch(info(r), bare)),
                         listed)

\* getDatabaseStats of each adapter
getDatabaseStats(a) ==
  LET stats(r) == { Ret(r.ad, <<[totalTables |-> 1]>>, <<>>) }
      skipped(r) == { Ret(r.ad, <<>>, <<>>) }
      wrapped(r) == { Thr(r.ad, handleError(a.type, r.err), <<>>) }
  IN  CASE a.type \in {"postgresql", "mysql"} -> Then(PromiseAll(a, 1, 5), stats)
        [] a.type = "sqlite" -> Then(PromiseAll(a, 1, 4), stats)
        [] a.type = "mssql" -> Then(QueryChain(a, 1, 1), stats)
        [] a.type = "cassandra" ->
             IF ~a.handle
               THEN NotConnected(a, "Database not connected", 0)
               ELSE Catch(Then(NativeCall(a, "client.execute", 1), stats), wrapped)
        [] a.type = "mongodb" ->
             IF ~a.client
               THEN NotConnected(a, "Database not connected", 0)
               ELSE Catch(Then(Then(NativeCall(a, "db.stats", 1),
                                    LAMBDA r : NativeCall(r.ad, "db.listCollections", 2)),
                               stats),
                          wrapped)
        [] a.type = "redis" ->
             IF ~a.handle
               THEN NotConnected(a, "Database not connected", 0)
               ELSE Catch(Then(Then(NativeCall(a, "client.info", 1),
                                    LAMBDA r : NativeCall(r.ad, "client.dbSize", 2)),
                               stats),
                          wrapped)
        [] a.type = "dynamodb" ->
             IF ~a.handle
               THEN NotConnected(a, "Not connected to database", 0)
               ELSE Then(Then(Call("getTables", 1, getTables(a)),
                              LAMBDA r : Catch(NativeCall(r.ad, "client.send", 3), skipped)),
                         stats)

\* the body of the try block of each adapter's validateConnection.  Cassandra
\* and MongoDB probe through `?.`, which skips the call on a null handle.
Probe(a) ==
  CASE a.type \in {"postgresql", "mysql", "sqlite", "mssql"} ->
         Call("executeQuery", 1, executeQuery(a, Str(<<"SELECT", " ", "1">>), "undefined", 1))
    [] a.type = "redis" ->
         Call("executeQuery", 1, executeQuery(a, Str(<<"PING">>), "undefined", 1))
    [] a.type = "cassandra" ->
         IF a.handle THEN NativeCall(a, "client.execute", 1) ELSE { Ret(a, <<>>, <<>>) }
    [] a.type = "mongodb" ->
         IF a.client THEN NativeCall(a, "admin.ping", 1) ELSE { Ret(a, <<>>, <<>>) }
    [] a.type = "dynamodb" ->
         Call("getTables", 1, getTables(a))

\* a variant of validateConnection whose catch block returns true
validateConnectionTrue(a) ==
  Catch(Then(Probe(a), LAMBDA r : { Ret(r.ad, <<TRUE>>, <<>>) }),
        LAMBDA r : { Ret(r.ad, <<TRUE>>, <<>>) })

\* `try { await <probe>; return true } catch { return false }`; the reply
\* of a Redis server that answers PING is 'PONG'
validateConnection(a) ==
  Catch(Then(Probe(a), LAMBDA r : { Ret(r.ad, <<TRUE>>, <<>>) }),
        LAMBDA r : { Ret(r.ad, <<FALSE>>, <<>>) })

----------------------------------------------------------------------------
(* BaseDatabaseAdapter: the composite operations every adapter inherits *)

ensureConnection(a) ==
  IF ~isConnected(a)
    THEN Call("connect", 0, connect(a))
    ELSE { Ret(a, <<>>, <<>>) }

safeExecuteQuery(a, query, parameters) ==
  Catch(Then(Call("validateQuery", 0, validateQuery(a, query)),
        LAMBDA r : Then(Call("validateParameters", 0, validateParameters(r.ad, parameters)),
        LAMBDA s : Then(Call("ensureConnection", 0, ensureConnection(s.ad)),
        LAMBDA t : Call("executeQuery", 1, executeQuery(t.ad, query, parameters, 1))))),
        LAMBDA r : { Thr(r.ad, handleError(a.type, r.err), <<>>) })

\* a variant of the loop that puts each result in front of the earlier ones
RECURSIVE BatchLoopUnshift(_, _, _, _)
BatchLoopUnshift(a, operations, i, results) ==
  IF i > Len(operations)
    THEN { Ret(a, results, <<>>) }
    ELSE Then(Call("executeQuery", i,
                   executeQuery(a, operations[i].query, operations[i].parameters, i)),
              LAMBDA r : BatchLoopUnshift(r.ad, operations, i + 1, r.val \o results))

\* the for loop of executeBatch from operation i on, `results` collected so far
RECURSIVE BatchLoop(_, _, _, _)
BatchLoop(a, operations, i, results) ==
  IF i > Len(operations)
    THEN { Ret(a, results, <<>>) }
    ELSE Then(Call("executeQuery", i,
                   executeQuery(a, operations[i].query, operations[i].parameters, i)),
              LAMBDA r : BatchLoop(r.ad, operations, i + 1, results \o r.val))

executeBatch(a, operations) ==
  Catch(Then(Call("beginTransaction", 0, beginTransaction(a)),
        LAMBDA r : Then(BatchLoop(r.ad, operations, 1, <<>>),
        LAMBDA s : Then(Call("commitTransaction", 0, commitTransaction(s.ad)),
        LAMBDA t : { Ret(t.ad, s.val, <<>>) }))),
        LAMBDA r : Then(Call("rollbackTransaction", 0, rollbackTransaction(r.ad)),
        LAMBDA s : { Thr(s.ad, handleError(a.type, r.err), <<>>) }))

----------------------------------------------------------------------------
(* DataExportImportService: the two places that build a query text and     *)
(* hand it to executeQuery                                                  *)

\* the text exportTableData builds; limit = 0 stands for no options.limit
ExportQuery(tableName, whereClause, limit) ==
  LET select == <<"SELECT", " ", "*", " ", "FROM", " ">> \o tableName
      where == IF whereClause # <<>>
                 THEN select \o <<" ", "WHERE", " ">> \o whereClause
                 ELSE select
  IN  Str(IF limit # 0 THEN where \o <<" ", "LIMIT", " ", "n">> ELSE where)

exportTableData(a, tableName, whereClause, limit) ==
  Call("executeQuery", 1,
       executeQuery(a, ExportQuery(tableName, whereClause, limit), "undefined", 1))

\* the text importBatch builds for a row (options.mode = 'insert')
ImportQuery(tableName) ==
  Str(<<"INSERT", " ", "INTO", " ">> \o tableName
        \o <<" ", "(c)", " ", "VALUES", " ", "(?)">>)

\* the row loop of importBatch from row i on
RECURSIVE ImportLoop(_, _, _, _, _)
ImportLoop(a, tableName, rows, skipErrors, i) ==
  IF i > rows
    THEN { Ret(a, <<>>, <<>>) }
    ELSE Then(Catch(Call("executeQuery", i,
                         executeQuery(a, ImportQuery(tableName), "array", i)),
                    LAMBDA r : IF skipErrors THEN { Ret(r.ad, <<>>, <<>>) }
                                             ELSE { Thr(r.ad, r.err, <<>>) }),
              LAMBDA r : ImportLoop(r.ad, tableName, rows, skipErrors, i + 1))

importBatch(a, tableName, rows, skipErrors) ==
  IF rows = 0 THEN { Ret(a, <<>>, <<>>) }
              ELSE ImportLoop(a, tableName, rows, skipErrors, 1)

\* the text of executeQuery call `at` of a call: the operation's own query, or
\* the text the export and import services built
QuerySent(call, at) ==
  CASE call.op = "exportTableData" -> ExportQuery(call.table, call.where, call.limit)
    [] call.op = "importBatch"     -> ImportQuery(call.table)
    [] OTHER                       -> call.ops[at].query

----------------------------------------------------------------------------
(* The inputs of the adapter specification *)

\* a query the backend of this kind can execute
ValidQuery(type) ==
  CASE type = "redis"                 -> <<"GET", " ", "x">>
    [] type \in {"mongodb", "dynamodb"} -> <<"{cmd}">>
    [] OTHER                          -> <<"SELECT", " ", "x">>

\* "<valid query>; <w1> <w2> x": a second statement stacked on the first
Stacked(type, w1, w2) == ValidQuery(type) \o <<";", " ", w1, " ", w2, " ", "x">>

\* the texts of '; DROP TABLE x' in three letter cases
DropTableX(type) ==
  { Str(Stacked(type, "DROP", "TABLE")), Str(Stacked(type, "drop", "table")),
    Str(Stacked(type, "Drop", "Table")) }

Queries(type) ==
  { Str(ValidQuery(type)), Str(<<>>), NotAString,
    Str(ValidQuery(type) \o <<";", "drop", " ", "table">>),
    Str(Stacked(type, "DELETE", "FROM")),
    Str(ValidQuery(type) \o <<";">>),
    Str(ValidQuery(type) \o <<" ", "drop", " ", "table", " ", "x">>),
    Str(ValidQuery(type) \o <<";", " ", "droptable", " ", "x">>) }
    \cup DropTableX(type)

BatchQueries(type) == { Str(ValidQuery(type)), Str(Stacked(type, "DROP", "TABLE")) }

Operations(type) ==
  UNION { [1..n -> [query : BatchQueries(type), parameters : {"array"}]] : n \in 0..MaxOps }

TableNames == { <<"x">>, <<"x", ";", " ", "DROP", " ", "TABLE", " ", "x">> }

WhereClauses == { <<>>, <<"x">>, <<"x", ";", " ", "drop", " ", "table", " ", "x">> }

----------------------------------------------------------------------------
(* DatabaseConnectionManager.  The Map `connections` is the sequence of its *)
(* entries [name, id] in insertion order, id naming the adapter object in   *)
(* `adapters`.  currentConnection is <<>> for null and <<name>> for a name. *)
(* An async method runs from one await to the next in one step; the method  *)
(* an adapter is awaited for takes effect on the adapter when the await     *)
(* resumes.                                                                 *)

\* the connection names callers use; "" is the one falsy name
Names == {"", "a", "b"}

\* the config.type values handed to addConnection
RegistryTypes == {"postgresql", "oracle"}

Null == <<>>

\* Map.prototype.has
MapHas(m, name) == \E i \in 1..Len(m) : m[i].name = name

\* the position of the entry of `name`
MapIndex(m, name) == CHOOSE i \in 1..Len(m) : m[i].name = name

\* Map.prototype.get of a name the map has
MapGet(m, name) == m[MapIndex(m, name)].id

\* a variant of Map.prototype.set that always adds an entry
MapSetAppend(m, name, id) == Append(m, [name |-> name, id |-> id])

\* Map.prototype.set: the value of an existing key is replaced in place, a
\* new key is appended
MapSet(m, name, id) ==
  IF MapHas(m, name)
    THEN [m EXCEPT ![MapIndex(m, name)].id = id]
    ELSE Append(m, [name |-> name, id |-> id])

\* Map.prototype.delete
MapDelete(m, name) == SelectSeq(m, LAMBDA e : e.name # name)

\* `connections.keys().next().value || null`
FirstKeyOrNull(m) == IF Len(m) > 0 /\ m[1].name # "" THEN <<m[1].name>> ELSE Null

\* `!this.currentConnection`
NoCurrent(current) == current = Null \/ current = <<"">>

\* a suspended call: what it runs, the name it was given, the adapter it
\* awaits, and for disconnectAll the position of its Map iterator
Task(op, name, id, pos) == [op |-> op, name |-> name, id |-> id, pos |-> pos]

Suspended(op) == { x \in BagToSet(tasks) : x.op = op }

Suspend(ts, x) == ts (+) SetToBag({x})

Resume(ts, x) == ts (-) SetToBag({x})

\* a further call can be issued while others are suspended
CanCall == BagCardinality(tasks) < MaxTasks

\* The position of every suspended disconnectAll iteration after the entry
\* at index k has been deleted (k = 0: after clear()): a Map iterator goes on
\* with the entries that follow the one it visited last.
IteratorsAfterDelete(ts, k) ==
  BagOfAll(LAMBDA x : IF x.op = "disconnectAll" /\ (k = 0 \/ x.pos >= k)
                        THEN [x EXCEPT !.pos = IF k = 0 THEN 0 ELSE @ - 1]
                        ELSE x,
           ts)

\* addConnection up to `await database.connect()`; an unsupported type makes
\* createDatabase throw and the call fail at once
addConnection(name, type) ==
  /\ CanCall
  /\ IF type \in getSupportedTypes
       THEN /\ Len(adapters) < MaxAdapters
            /\ adapters' = Append(adapters, createDatabase(type))
            /\ tasks' = Suspend(tasks, Task("addConnection", name, Len(adapters) + 1, 0))
       ELSE UNCHANGED <<adapters, tasks>>
  /\ UNCHANGED <<connections, currentConnection>>
  /\ UNCHANGED adapterVars

\* a variant of addConnection that registers the adapter before it knows
\* whether connect() succeeded
addConnectionResumeEager(x, r) ==
  /\ adapters' = [adapters EXCEPT ![x.id] = r.ad]
  /\ connections' = MapSet(connections, x.name, x.id)
  /\ currentConnection' = IF NoCurrent(currentConnection)
                            THEN <<x.name>>
                            ELSE currentConnection
  /\ tasks' = Resume(tasks, x)
  /\ UNCHANGED adapterVars

\* addConnection from the end of connect() on
addConnectionResume(x, r) ==
  /\ adapters' = [adapters EXCEPT ![x.id] = r.ad]
  /\ IF r.threw
       THEN UNCHANGED <<connections, currentConnection>>
       ELSE /\ connections' = MapSet(connections, x.name, x.id)
            /\ currentConnection' = IF NoCurrent(currentConnection)
                                      THEN <<x.name>>
                                      ELSE currentConnection
  /\ tasks' = Resume(tasks, x)
  /\ UNCHANGED adapterVars

\* removeConnection up to `await connection.disconnect()`; a name the map
\* does not have returns at once
removeConnection(name) ==
  /\ CanCall
  /\ IF MapHas(connections, name)
       THEN /\ tasks' = Suspend(tasks, Task("removeConnection", name,
                                            MapGet(connections, name), 0))
       ELSE UNCHANGED tasks
  /\ UNCHANGED <<connections, currentConnection, adapters>>
  /\ UNCHANGED adapterVars

\* a variant of removeConnection that deletes the entry whether or not
\* disconnect() succeeded
removeConnectionResumeAlways(x, r) ==
  /\ adapters' = [adapters EXCEPT ![x.id] = r.ad]
  /\ connections' = MapDelete(connections, x.name)
  /\ currentConnection' =
       IF currentConnection = <<x.name>>
         THEN FirstKeyOrNull(connections')
         ELSE currentConnection
  /\ tasks' = IF MapHas(connections, x.name)
                THEN IteratorsAfterDelete(Resume(tasks, x),
                                          MapIndex(connections, x.name))
                ELSE Resume(tasks, x)
  /\ UNCHANGED adapterVars

\* removeConnection from the end of disconnect() on
removeConnectionResume(x, r) ==
  /\ adapters' = [adapters EXCEPT ![x.id] = r.ad]
  /\ IF r.threw
       THEN /\ tasks' = Resume(tasks, x)
            /\ UNCHANGED <<connections, currentConnection>>
       ELSE /\ connections' = MapDelete(connections, x.name)
            /\ currentConnection' =
                 IF currentConnection = <<x.name>>
                   THEN FirstKeyOrNull(connections')
                   ELSE currentConnection
            /\ tasks' = IF MapHas(connections, x.name)
                          THEN IteratorsAfterDelete(Resume(tasks, x),
                                                    MapIndex(connections, x.name))
                          ELSE Resume(tasks, x)
  /\ UNCHANGED adapterVars

\* a variant of setCurrentConnection without the has() test
setCurrentConnectionUnchecked(name) ==
  /\ currentConnection' = <<name>>
  /\ UNCHANGED <<connections, adapters, tasks>>
  /\ UNCHANGED adapterVars

setCurrentConnection(name) ==
  /\ IF MapHas(connections, name)
       THEN currentConnection' = <<name>>
       ELSE UNCHANGED currentConnection
  /\ UNCHANGED <<connections, adapters, tasks>>
  /\ UNCHANGED adapterVars

\* disconnectAll up to its first `await connection.disconnect()`; with an
\* empty map the loop body never runs and the method finishes at once
disconnectAll ==
  /\ CanCall
  /\ IF Len(connections) > 0
       THEN /\ tasks' = Suspend(tasks, Task("disconnectAll", "", connections[1].id, 1))
            /\ UNCHANGED <<connections, currentConnection>>
       ELSE /\ connections' = <<>>
            /\ currentConnection' = Null
            /\ tasks' = IteratorsAfterDelete(tasks, 0)
  /\ UNCHANGED adapters
  /\ UNCHANGED adapterVars

\* a variant of disconnectAll without the try block around disconnect(): a
\* failure ends the loop before clear()
disconnectAllResumeUncaught(x, r) ==
  /\ adapters' = [adapters EXCEPT ![x.id] = r.ad]
  /\ IF x.pos < Len(connections) /\ ~r.threw
       THEN /\ tasks' = Suspend(Resume(tasks, x),
                                Task("disconnectAll", "", connections[x.pos + 1].id, x.pos + 1))
            /\ UNCHANGED <<connections, currentConnection>>
       ELSE /\ connections' = IF r.threw THEN connections ELSE <<>>
            /\ currentConnection' = IF r.threw THEN currentConnection ELSE Null
            /\ tasks' = IF r.threw
                          THEN Resume(tasks, x)
                          ELSE IteratorsAfterDelete(Resume(tasks, x), 0)
  /\ UNCHANGED adapterVars

\* disconnectAll from the end of a disconnect() on: a failure is logged and
\* swallowed, then the iterator gives the next entry or the loop ends
disconnectAllResume(x, r) ==
  /\ adapters' = [adapters EXCEPT ![x.id] = r.ad]
  /\ IF x.pos < Len(connections)
       THEN /\ tasks' = Suspend(Resume(tasks, x),
                                Task("disconnectAll", "", connections[x.pos + 1].id, x.pos + 1))
            /\ UNCHANGED <<connections, currentConnection>>
       ELSE /\ connections' = <<>>
            /\ currentConnection' = Null
            /\ tasks' = IteratorsAfterDelete(Resume(tasks, x), 0)
  /\ UNCHANGED adapterVars

\* nothing has happened to the adapter under test
NoHistory == [open |-> FALSE, connectCalled |-> FALSE, live |-> FALSE]

\* no call is in flight on the adapter under test
NoCall ==
  [ op |-> "none", ops |-> <<>>, table |-> <<>>, where |-> <<>>, limit |-> 0, pre |-> ad,
    was |-> hist, threw |-> FALSE, err |-> NoError, val |-> <<>>, tr |-> <<>> ]

\* no manager call has been made
NoReply ==
  [ op |-> "none", name |-> "", type |-> "", done |-> TRUE, threw |-> FALSE,
    err |-> <<>>, val |-> <<>>, tr |-> <<>>, config |-> <<>>,
    connections |-> <<>>, currentConnection |-> Null ]

\* the manager as its constructor leaves it
RegistryConstructed ==
  /\ connections = <<>>
  /\ currentConnection = Null
  /\ adapters = <<>>
  /\ tasks = EmptyBag
  /\ reply = NoReply

AddConnection ==
  /\ \E name \in Names, type \in RegistryTypes : addConnection(name, type)
  /\ UNCHANGED reply

AddConnectionResume ==
  /\ \E x \in Suspended("addConnection") :
       \E r \in connect(adapters[x.id]) : addConnectionResume(x, r)
  /\ UNCHANGED reply

RemoveConnection ==
  /\ \E name \in Names : removeConnection(name)
  /\ UNCHANGED reply

RemoveConnectionResume ==
  /\ \E x \in Suspended("removeConnection") :
       \E r \in disconnect(adapters[x.id]) : removeConnectionResume(x, r)
  /\ UNCHANGED reply

SetCurrentConnection ==
  /\ \E name \in Names : setCurrentConnection(name)
  /\ UNCHANGED reply

DisconnectAll ==
  /\ disconnectAll
  /\ UNCHANGED reply

DisconnectAllResume ==
  /\ \E x \in Suspended("disconnectAll") :
       \E r \in disconnect(adapters[x.id]) : disconnectAllResume(x, r)
  /\ UNCHANGED reply

InitRegistry ==
  /\ RegistryConstructed
  /\ ad = createDatabase("postgresql")
  /\ hist = NoHistory
  /\ last = NoCall

NextRegistry ==
  \/ AddConnection
  \/ AddConnectionResume
  \/ RemoveConnection
  \/ RemoveConnectionResume
  \/ SetCurrentConnection
  \/ DisconnectAll
  \/ DisconnectAllResume

SpecRegistry == InitRegistry /\ [][NextRegistry]_vars

\* C1: in every state the manager reaches, with its calls succeeding, failing
\* and interleaved at their awaits, the connection names are unique and
\* currentConnection is null or the name of an entry of the map, so at most
\* one entry is current.
C1_RegistryInvariant ==
  /\ \A i, j \in 1..Len(connections) :
       connections[i].name = connections[j].name => i = j
  /\ currentConnection = Null \/ MapHas(connections, currentConnection[1])
  /\ Cardinality({ i \in 1..Len(connections) :
                     <<connections[i].name>> = currentConnection }) <= 1

\* two addConnection calls have run side by side; the adapter created first
\* has been in the map and has been removed and disconnected; the entry of
\* the second is current and a disconnectAll is suspended on it
C1_Witness ==
  /\ Len(adapters) = 2
  /\ adapters[1] = createDatabase("postgresql")
  /\ connections = <<[name |-> "b", id |-> 2]>>
  /\ currentConnection = <<"b">>
  /\ isConnected(adapters[2])
  /\ \E x \in Suspended("disconnectAll") : x.id = 2
  /\ Suspended("addConnection") = {}

----------------------------------------------------------------------------
(* The manager specification: one caller that awaits every call before it  *)
(* makes the next one.  `reply` holds the call made last: its arguments,   *)
(* the map and the current name it started from, the adapter calls it has  *)
(* awaited so far, and its outcome once it has finished.                   *)

\* the config.type values of the sequential caller: one adapter for each way
\* validateConnection probes (this.executeQuery, `?.` on the handle,
\* getTables), and a type the factory does not know
ManagerTypes == {"postgresql", "mongodb", "dynamodb", "oracle"}

\* a call as it starts
Asked(op, name, type) ==
  [NoReply EXCEPT !.op = op, !.name = name, !.type = type, !.done = FALSE,
                  !.connections = connections,
                  !.currentConnection = currentConnection]

\* the record of one awaited adapter call
Awaited(x, r) == [id |-> x.id, threw |-> r.threw, val |-> r.val, tr |-> r.tr]

\* getConnection(name?): `name` is <<>> when the argument is left out
getConnection(name) ==
  IF name # Null /\ name # <<"">>
    THEN IF MapHas(connections, name[1])
           THEN <<MapGet(connections, name[1])>>
           ELSE Null
    ELSE IF ~NoCurrent(currentConnection) /\ MapHas(connections, currentConnection[1])
           THEN <<MapGet(connections, currentConnection[1])>>
           ELSE Null

getCurrentConnectionName == currentConnection

hasConnection(name) == MapHas(connections, name)

\* `constructor.name` of the adapter the factory makes for a type, as the
\* words the class name is made of
ConstructorName(type) ==
  CASE type = "postgresql" -> <<"PostgreSQL", "Adapter">>
    [] type = "mysql"      -> <<"MySQL", "Adapter">>
    [] type = "sqlite"     -> <<"SQLite", "Adapter">>
    [] type = "redis"      -> <<"Redis", "Adapter">>
    [] type = "mongodb"    -> <<"MongoDB", "Adapter">>
    [] type = "cassandra"  -> <<"Cassandra", "Adapter">>
    [] type = "mssql"      -> <<"MSSQL", "Adapter">>
    [] type = "dynamodb"   -> <<"DynamoDB", "Adapter">>

\* String.prototype.replace(word, ''): the first occurrence is taken out
Replace(words, word) ==
  LET at == { i \in 1..Len(words) : words[i] = word }
  IN  IF at = {}
        THEN words
        ELSE LET k == CHOOSE i \in at : \A j \in at : i <= j
             IN  SubSeq(words, 1, k - 1) \o SubSeq(words, k + 1, Len(words))

\* listConnections(): one record per entry, in iteration order; a type is
\* the sequence of the lower-cased words of the string
listConnections ==
  [ i \in 1..Len(connections) |->
      LET connection == adapters[connections[i].id]
          words == Replace(ConstructorName(connection.type), "Database")
      IN  [ name      |-> connections[i].name,
            type      |-> [ j \in 1..Len(words) |-> ToLower(words[j]) ],
            connected |-> isConnected(connection) ] ]

\* a type the factory does not know makes createDatabase throw inside the
\* try block, so the call fails with the wrapped error at once
ManagerAddConnection ==
  /\ tasks = EmptyBag
  /\ \E name \in Names, type \in ManagerTypes :
       /\ addConnection(name, type)
       /\ reply' =
            IF type \in getSupportedTypes
              THEN Asked("addConnection", name, type)
              ELSE [Asked("addConnection", name, type) EXCEPT
                      !.done = TRUE, !.threw = TRUE,
                      !.err = <<"Failed to add connection", name,
                                NewError("Unsupported database type", 0)>>]

\* `catch (error) { throw new Error(`Failed to add connection '${name}': ${error}`) }`
ManagerAddConnectionResume ==
  \E x \in Suspended("addConnection") :
    \E r \in connect(adapters[x.id]) :
      /\ addConnectionResume(x, r)
      /\ reply' = [reply EXCEPT
                     !.done = TRUE, !.threw = r.threw,
                     !.err = IF r.threw
                               THEN <<"Failed to add connection", x.name, r.err>>
                               ELSE <<>>,
                     !.tr = Append(@, Awaited(x, r))]

ManagerRemoveConnection ==
  /\ tasks = EmptyBag
  /\ \E name \in Names :
       /\ removeConnection(name)
       /\ reply' = [Asked("removeConnection", name, "") EXCEPT
                      !.done = ~MapHas(connections, name)]

\* a failing disconnect() is not caught: the call rejects with its error
ManagerRemoveConnectionResume ==
  \E x \in Suspended("removeConnection") :
    \E r \in disconnect(adapters[x.id]) :
      /\ removeConnectionResume(x, r)
      /\ reply' = [reply EXCEPT
                     !.done = TRUE, !.threw = r.threw,
                     !.err = IF r.threw THEN <<r.err>> ELSE <<>>,
                     !.tr = Append(@, Awaited(x, r))]

\* `throw new Error(`Connection '${name}' not found`)`
ManagerSetCurrentConnection ==
  /\ tasks = EmptyBag
  /\ \E name \in Names :
       /\ setCurrentConnection(name)
       /\ reply' = [Asked("setCurrentConnection", name, "") EXCEPT
                      !.done = TRUE,
                      !.threw = ~MapHas(connections, name),
                      !.err = IF MapHas(connections, name)
                                THEN <<>>
                                ELSE <<"Connection not found", name>>]

ManagerDisconnectAll ==
  /\ tasks = EmptyBag
  /\ disconnectAll
  /\ reply' = [Asked("disconnectAll", "", "") EXCEPT !.done = Len(connections) = 0]

\* `catch (error) { console.error(...) }`: the failure is not passed on
ManagerDisconnectAllResume ==
  \E x \in Suspended("disconnectAll") :
    \E r \in disconnect(adapters[x.id]) :
      /\ disconnectAllResume(x, r)
      /\ reply' = [reply EXCEPT
                     !.done = ~(x.pos < Len(connections)),
                     !.tr = Append(@, Awaited(x, r))]

\* validateAllConnections up to its first `await connection.validateConnection()`;
\* `results` is reply.val
ManagerValidateAllConnections ==
  /\ tasks = EmptyBag
  /\ IF Len(connections) > 0
       THEN tasks' = Suspend(tasks, Task("validateAllConnections", "", connections[1].id, 1))
       ELSE UNCHANGED tasks
  /\ UNCHANGED <<connections, currentConnection, adapters>>
  /\ UNCHANGED adapterVars
  /\ reply' = [Asked("validateAllConnections", "", "") EXCEPT !.done = Len(connections) = 0]

\* validateAllConnections from the end of a validateConnection() on:
\* `results[name] = <its value>`, or false in the catch block, then the
\* iterator gives the next entry or the method returns
ManagerValidateAllConnectionsResume ==
  \E x \in Suspended("validateAllConnections") :
    \E r \in validateConnection(adapters[x.id]) :
      /\ adapters' = [adapters EXCEPT ![x.id] = r.ad]
      /\ tasks' = IF x.pos < Len(connections)
                    THEN Suspend(Resume(tasks, x),
                                 Task("validateAllConnections", "",
                                      connections[x.pos + 1].id, x.pos + 1))
                    ELSE Resume(tasks, x)
      /\ UNCHANGED <<connections, currentConnection>>
      /\ UNCHANGED adapterVars
      /\ reply' = [reply EXCEPT
                     !.done = ~(x.pos < Len(connections)),
                     !.val = (connections[x.pos].name :>
                                (IF r.threw THEN FALSE ELSE r.val[1])) @@ @,
                     !.tr = Append(@, Awaited(x, r))]

InitManager ==
  /\ RegistryConstructed
  /\ ad = createDatabase("postgresql")
  /\ hist = NoHistory
  /\ last = NoCall

NextManager ==
  \/ ManagerAddConnection
  \/ ManagerAddConnectionResume
  \/ ManagerRemoveConnection
  \/ ManagerRemoveConnectionResume
  \/ ManagerSetCurrentConnection
  \/ ManagerDisconnectAll
  \/ ManagerDisconnectAllResume
  \/ ManagerValidateAllConnections
  \/ ManagerValidateAllConnectionsResume

SpecManager == InitManager /\ [][NextManager]_vars

\* C12: when the adapter's connect() fails during addConnection(name, cfg),
\* addConnection throws an error that names the connection, and the map and
\* the current connection name are exactly what they were before the call.
C12_FailedAddLeavesRegistry ==
  (reply.op = "addConnection" /\ reply.done
     /\ \E i \in 1..Len(reply.tr) : reply.tr[i].threw)
    => /\ reply.threw
       /\ reply.err[1] = "Failed to add connection"
       /\ reply.err[2] = reply.name
       /\ connections = reply.connections
       /\ currentConnection = reply.currentConnection
       /\ ~hasConnection(reply.name) \/ \E i \in 1..Len(reply.connections) :
                                         reply.connections[i].name = reply.name

\* a second addConnection, made when "a" was registered and current, has
\* failed in connect()
C12_Witness ==
  /\ reply.op = "addConnection" /\ reply.done /\ reply.threw
  /\ Len(reply.tr) = 1 /\ reply.tr[1].threw
  /\ reply.name = "b"
  /\ reply.connections # <<>>
  /\ currentConnection = <<"a">>

\* C13: a removeConnection(n) that returns has, for a registered n, awaited
\* disconnect() on n's adapter and deleted exactly n's entry, so that
\* hasConnection(n) is false; if n was current the current name is then the
\* first remaining entry in iteration order, or null when none remains; if n
\* was not current the current name is unchanged; for an unregistered n
\* nothing changes and no adapter is called.
C13_RemoveConnection ==
  (reply.op = "removeConnection" /\ reply.done /\ ~reply.threw) =>
    IF MapHas(reply.connections, reply.name)
      THEN /\ Len(reply.tr) = 1
           /\ reply.tr[1].id = MapGet(reply.connections, reply.name)
           /\ ~hasConnection(reply.name)
           /\ connections = MapDelete(reply.connections, reply.name)
           /\ IF reply.currentConnection = <<reply.name>>
                THEN getCurrentConnectionName =
                       IF Len(connections) > 0 THEN <<connections[1].name>> ELSE Null
                ELSE getCurrentConnectionName = reply.currentConnection
      ELSE /\ reply.tr = <<>>
           /\ connections = reply.connections
           /\ getCurrentConnectionName = reply.currentConnection

\* C14: an addConnection(a) that succeeds on an empty registry makes a the
\* current name, and getConnection() without a name then returns the adapter
\* getConnection(a) returns; an addConnection(b) that succeeds on a registry
\* that has entries leaves the current name as it was.
C14_FirstRegisteredStaysCurrent ==
  (reply.op = "addConnection" /\ reply.done /\ ~reply.threw) =>
    IF reply.connections = <<>>
      THEN /\ getCurrentConnectionName = <<reply.name>>
           /\ getConnection(Null) # Null
           /\ getConnection(Null) = getConnection(<<reply.name>>)
           /\ getConnection(Null) = <<reply.tr[1].id>>
      ELSE getCurrentConnectionName = reply.currentConnection

\* C15: a finished disconnectAll() has awaited disconnect() once on every
\* adapter that was registered, in iteration order, whether or not some of
\* those calls threw; it has not thrown, and the map is empty and the current
\* name null.
C15_DisconnectAll ==
  (reply.op = "disconnectAll" /\ reply.done) =>
    /\ ~reply.threw
    /\ Len(reply.tr) = Len(reply.connections)
    /\ \A i \in 1..Len(reply.connections) : reply.tr[i].id = reply.connections[i].id
    /\ connections = <<>>
    /\ getCurrentConnectionName = Null

\* disconnectAll() has finished on two registered adapters, the disconnect()
\* of the first of them having thrown
C15_Witness ==
  /\ reply.op = "disconnectAll" /\ reply.done
  /\ Len(reply.connections) = 2
  /\ Len(reply.tr) = 2
  /\ reply.tr[1].threw
  /\ connections = <<>>

\* C17: setCurrentConnection(name) throws for a name that is not registered
\* and leaves the current name as it was; for a registered name it returns
\* with name current; in both cases the map is unchanged.
C17_SetCurrentConnection ==
  reply.op = "setCurrentConnection" =>
    /\ reply.done
    /\ connections = reply.connections
    /\ IF \E i \in 1..Len(reply.connections) : reply.connections[i].name = reply.name
         THEN ~reply.threw /\ getCurrentConnectionName = <<reply.name>>
         ELSE /\ reply.threw
              /\ reply.err = <<"Connection not found", reply.name>>
              /\ getCurrentConnectionName = reply.currentConnection

\* with "a" current and "b" registered, setCurrentConnection("b") has returned
C17_Witness ==
  /\ reply.op = "setCurrentConnection" /\ ~reply.threw
  /\ reply.name = "b"
  /\ reply.currentConnection = <<"a">>
  /\ Len(connections) = 2
  /\ getCurrentConnectionName = <<"b">>

\* the native calls of a trace that were rejected
Rejected(tr) == { i \in 1..Len(tr) : tr[i].ph = "native" /\ tr[i].err # NoError }

\* C16: a finished validateAllConnections() has not thrown; its result has
\* exactly the registered names as keys; each value is what that adapter's
\* validateConnection() returned, or false if it threw; an adapter whose
\* backend answered every native call maps to true and one whose backend
\* rejected the probe maps to false; the map and the current name are as
\* before.
C16_ValidateAllConnections ==
  (reply.op = "validateAllConnections" /\ reply.done) =>
    /\ ~reply.threw
    /\ connections = reply.connections
    /\ getCurrentConnectionName = reply.currentConnection
    /\ DOMAIN reply.val = { connections[i].name : i \in 1..Len(connections) }
    /\ Len(reply.tr) = Len(connections)
    /\ \A i \in 1..Len(connections) :
         LET call == reply.tr[i]
             value == reply.val[connections[i].name]
         IN  /\ call.id = connections[i].id
             /\ value = IF call.threw THEN FALSE ELSE call.val[1]
             /\ ((\E n \in 1..Len(call.tr) : call.tr[n].ph = "native")
                   /\ Rejected(call.tr) = {}) => value = TRUE
             /\ (\E k \in Rejected(call.tr) :
                   \A n \in 1..(k - 1) : call.tr[n].ph # "native") => value = FALSE

\* validateAllConnections() has returned for two registered adapters, the
\* backend of the first answering and the backend of the second rejecting
C16_Witness ==
  /\ reply.op = "validateAllConnections" /\ reply.done
  /\ Len(connections) = 2
  /\ Len(reply.tr) = 2
  /\ Len(reply.tr[1].tr) > 0
  /\ Rejected(reply.tr[1].tr) = {} /\ reply.val[connections[1].name] = TRUE
  /\ Rejected(reply.tr[2].tr) # {} /\ reply.val[connections[2].name] = FALSE

\* C20: listConnections() returns one record per registered connection,
\* with the connection's name, with the backend kind the connection was added
\* with (one of the supported kinds) as type, and with what the adapter's
\* isConnected() returns at that moment as connected.
C20_ListConnections ==
  /\ Len(listConnections) = Len(connections)
  /\ \A i \in 1..Len(connections) :
       LET connection == adapters[connections[i].id]
       IN  /\ listConnections[i].name = connections[i].name
           /\ listConnections[i].connected = isConnected(connection)
           /\ listConnections[i].type = <<connection.type>>
           /\ \E kind \in getSupportedTypes : listConnections[i].type = <<kind>>

----------------------------------------------------------------------------
(* DatabaseAdapterFactory.validateConfig.  A configuration is its type and *)
(* the set of the connection fields it carries with a truthy value; an     *)
(* error is its message and the fields the message names.                  *)

ConfigFields == {"url", "host", "database", "filename", "keyspace", "region", "endpoint"}

\* the config.type values: the supported kinds, an unknown kind, and none
ConfigTypes == getSupportedTypes \cup {"oracle", ""}

Configs == [type : ConfigTypes, fields : SUBSET ConfigFields]

ConfigError(msg, fields) == [msg |-> msg, fields |-> fields]

\* `if (!config.f1 && !config.f2 ...) errors.push(msg)`
Require(config, fields, msg) ==
  IF config.fields \cap fields = {} THEN <<ConfigError(msg, fields)>> ELSE <<>>

\* the two tests of config.type before the switch
TypeErrors(config) ==
  (IF config.type = ""
     THEN <<ConfigError("Database type is required", {})>>
     ELSE <<>>)
  \o (IF config.type \notin getSupportedTypes
        THEN <<ConfigError("Unsupported database type", {})>>
        ELSE <<>>)

\* the switch over config.type
FieldErrors(config) ==
  CASE config.type \in {"postgresql", "mysql"} ->
         Require(config, {"host", "url"}, "Host or URL is required for PostgreSQL/MySQL")
         \o Require(config, {"database", "url"},
                    "Database name is required for PostgreSQL/MySQL")
    [] config.type = "sqlite" ->
         Require(config, {"filename", "database", "url"},
                 "Filename or database name is required for SQLite")
    [] config.type = "redis" ->
         Require(config, {"host", "url"}, "Host or URL is required for Redis")
    [] config.type = "mongodb" ->
         Require(config, {"host", "url"}, "Host or URL is required for MongoDB")
         \o Require(config, {"database", "url"}, "Database name is required for MongoDB")
    [] config.type = "cassandra" ->
         Require(config, {"host", "url"}, "Host or URL is required for Cassandra")
         \o Require(config, {"keyspace", "database", "url"},
                    "Keyspace or database name is required for Cassandra")
    [] config.type = "mssql" ->
         Require(config, {"host", "url"}, "Host or URL is required for Microsoft SQL Server")
         \o Require(config, {"database", "url"},
                    "Database name is required for Microsoft SQL Server")
    [] config.type = "dynamodb" ->
         Require(config, {"region", "endpoint"}, "Region or endpoint is required for DynamoDB")
    [] OTHER -> <<>>

\* a variant of validateConfig without the switch over config.type
validateConfigTypeOnly(config) ==
  [valid |-> Len(TypeErrors(config)) = 0, errors |-> TypeErrors(config)]

validateConfig(config) ==
  LET errors == TypeErrors(config) \o FieldErrors(config)
  IN  [valid |-> Len(errors) = 0, errors |-> errors]

\* validateConfig is called with a configuration and returns
ValidateConfig ==
  /\ \E config \in Configs :
       reply' = [NoReply EXCEPT !.op = "validateConfig", !.type = config.type,
                                !.config = config, !.val = validateConfig(config)]
  /\ UNCHANGED <<connections, currentConnection, adapters, tasks>>
  /\ UNCHANGED adapterVars

InitConfig ==
  /\ RegistryConstructed
  /\ ad = createDatabase("postgresql")
  /\ hist = NoHistory
  /\ last = NoCall

NextConfig == ValidateConfig

SpecConfig == InitConfig /\ [][NextConfig]_vars

\* C21: validateConfig returns (it does not throw) with valid true exactly
\* when its list of errors is empty; for a configuration of a supported kind
\* that carries none of the connection fields it returns valid false with an
\* error that names fields the configuration lacks.
C21_ValidateConfig ==
  reply.op = "validateConfig" =>
    /\ ~reply.threw
    /\ reply.val.valid <=> reply.val.errors = <<>>
    /\ (reply.config.type \in getSupportedTypes /\ reply.config.fields = {}) =>
         /\ ~reply.val.valid
         /\ \E i \in 1..Len(reply.val.errors) :
              /\ reply.val.errors[i].fields # {}
              /\ reply.val.errors[i].fields \cap reply.config.fields = {}

\* validateConfig has answered for a DynamoDB configuration that carries no
\* connection field
C21_Witness ==
  /\ reply.op = "validateConfig"
  /\ reply.config = [type |-> "dynamodb", fields |-> {}]
  /\ ~reply.val.valid
  /\ Len(reply.val.errors) = 1

\* C29: when the adapter's disconnect() throws during removeConnection(name),
\* removeConnection rejects with that error, and the registry is as it was
\* before the call: name is still registered, the map and the current
\* connection name are unchanged.
C29_FailedRemoveLeavesRegistry ==
  (reply.op = "removeConnection" /\ reply.done
     /\ \E i \in 1..Len(reply.tr) : reply.tr[i].threw)
    => /\ reply.threw
       /\ \E k \in Rejected(reply.tr[1].tr) :
            reply.err = <<handleError(adapters[reply.tr[1].id].type,
                                      reply.tr[1].tr[k].err)>>
       /\ hasConnection(reply.name)
       /\ connections = reply.connections
       /\ getCurrentConnectionName = reply.currentConnection

\* removeConnection of the current connection has failed in disconnect()
C29_Witness ==
  /\ reply.op = "removeConnection" /\ reply.done /\ reply.threw
  /\ Len(reply.tr) = 1 /\ reply.tr[1].threw
  /\ getCurrentConnectionName = <<reply.name>>
  /\ hasConnection(reply.name)

\* the adapter `id` is a value of the map m
Registered(m, id) == \E i \in 1..Len(m) : m[i].id = id

\* C27: an adapter leaves the connection map only in a call that has called
\* its disconnect(): every adapter that was registered (so successfully
\* connected) when the last manager call started is still registered, or
\* that call was removeConnection or disconnectAll and has awaited the
\* adapter's disconnect().  In particular addConnection with a registered
\* name leaves the adapter registered before under that name in the map.
C27_ConnectedAdaptersStayReachable ==
  \A i \in 1..Len(reply.connections) :
    LET id == reply.connections[i].id
    IN  \/ Registered(connections, id)
        \/ /\ reply.op \in {"removeConnection", "disconnectAll"}
           /\ \E k \in 1..Len(reply.tr) : reply.tr[k].id = id

----------------------------------------------------------------------------
(* The overlap specification: one connected pooled adapter whose           *)
(* transaction methods are called without waiting for each other.  A call  *)
(* runs up to its next `await` in one step; `tasks` holds the suspended    *)
(* calls and `reply.tr` the finished ones, in the order they finished.     *)

\* the native calls beginTransaction awaits: the pool checkout, the statement
BeginSites(type) ==
  IF type = "postgresql"
    THEN <<"pool.connect", "BEGIN">>
    ELSE <<"pool.getConnection", "START TRANSACTION">>

\* the calls issued so far are numbered 1, 2, ...
Issued == Len(reply.tr) + BagCardinality(tasks)

\* the number of calls made on the adapter
MaxCalls == MaxOps + MaxTasks

\* the beginTransaction calls suspended at their pool checkout
AtCheckout ==
  { x.id : x \in { y \in BagToSet(tasks) : y.op = "beginTransaction" /\ y.pos = 1 } }

\* a suspended call; `over` holds the calls that were at their pool checkout
\* when it was issued
Pending(op, over) == [op |-> op, name |-> "", id |-> Issued + 1, pos |-> 1, over |-> over]

\* the call x has settled with outcome r
Finish(x, r) ==
  reply' = [reply EXCEPT !.op = x.op, !.threw = r.threw,
                         !.tr = Append(@, [id |-> x.id, op |-> x.op, over |-> x.over,
                                           threw |-> r.threw, err |-> r.err])]

\* the part of the state the transaction methods do not touch
OverlapFrame == UNCHANGED <<last, hist, connections, currentConnection, adapters>>

\* beginTransaction up to `await this.pool!.connect()`
OverlapBeginTransaction ==
  /\ CanCall /\ Issued < MaxCalls
  /\ LET x == Pending("beginTransaction", AtCheckout)
     IN  IF ad.transactionClient
           THEN /\ Finish(x, Thr(ad, NewError("Transaction already in progress", 0), <<>>))
                /\ UNCHANGED <<ad, tasks>>
           ELSE /\ tasks' = Suspend(tasks, x)
                /\ UNCHANGED <<ad, reply>>
  /\ OverlapFrame

\* the checkout settles: `this.transactionClient = <the connection>`, then
\* beginTransaction runs up to `await this.transactionClient.query('BEGIN')`
OverlapCheckout ==
  /\ \E x \in Suspended("beginTransaction") :
       /\ x.pos = 1
       /\ \E r \in NativeCall(ad, BeginSites(ad.type)[1], 0) :
            IF r.threw
              THEN /\ Finish(x, r)
                   /\ tasks' = Resume(tasks, x)
                   /\ UNCHANGED ad
              ELSE /\ ad' = [ad EXCEPT !.transactionClient = TRUE, !.checkedOut = @ + 1]
                   /\ tasks' = Suspend(Resume(tasks, x), [x EXCEPT !.pos = 2])
                   /\ UNCHANGED reply
  /\ OverlapFrame

\* the BEGIN / START TRANSACTION statement settles and beginTransaction ends
OverlapBeginQuery ==
  /\ \E x \in Suspended("beginTransaction") :
       /\ x.pos = 2
       /\ \E r \in NativeCall(ad, BeginSites(ad.type)[2], 0) :
            /\ Finish(x, r)
            /\ tasks' = Resume(tasks, x)
  /\ UNCHANGED ad
  /\ OverlapFrame

\* commitTransaction or rollbackTransaction up to the await of its statement
OverlapEnd(op) ==
  /\ CanCall /\ Issued < MaxCalls
  /\ LET x == Pending(op, {})
     IN  IF ~ad.transactionClient
           THEN /\ Finish(x, Thr(ad, NewError("No transaction in progress", 0), <<>>))
                /\ UNCHANGED <<ad, tasks>>
           ELSE /\ tasks' = Suspend(tasks, x)
                /\ UNCHANGED <<ad, reply>>
  /\ OverlapFrame

OverlapCommitTransaction == OverlapEnd("commitTransaction")

OverlapRollbackTransaction == OverlapEnd("rollbackTransaction")

\* the COMMIT / ROLLBACK statement settles: `this.transactionClient.release();
\* this.transactionClient = null`, a TypeError when the field is null by now
OverlapEndQuery ==
  /\ \E x \in Suspended("commitTransaction") \cup Suspended("rollbackTransaction") :
       /\ tasks' = Resume(tasks, x)
       /\ \E r \in NativeCall(ad, IF x.op = "commitTransaction" THEN "COMMIT" ELSE "ROLLBACK", 0) :
            IF r.threw
              THEN Finish(x, r) /\ UNCHANGED ad
              ELSE IF ad.transactionClient
                THEN /\ ad' = [ad EXCEPT !.transactionClient = FALSE, !.checkedOut = @ - 1]
                     /\ Finish(x, r)
                ELSE /\ Finish(x, Thr(ad, NewError("TypeError: cannot read properties of null", 0), <<>>))
                     /\ UNCHANGED ad
  /\ OverlapFrame

InitOverlap ==
  /\ ad \in { r.ad : r \in { c \in UNION { connect(createDatabase(type)) : type \in PooledTypes } :
                              ~c.threw } }
  /\ hist = NoHistory
  /\ last = NoCall
  /\ RegistryConstructed

NextOverlap ==
  \/ OverlapBeginTransaction
  \/ OverlapCheckout
  \/ OverlapBeginQuery
  \/ OverlapCommitTransaction
  \/ OverlapRollbackTransaction
  \/ OverlapEndQuery

SpecOverlap == InitOverlap /\ [][NextOverlap]_vars

\* the pool connections checked out for a transaction that the adapter has
\* no reference to any more
Leaked(a) == a.checkedOut - (IF a.transactionClient THEN 1 ELSE 0)

\* C28: of two beginTransaction() calls on a pooled adapter, the second
\* issued while the first was suspended at its pool checkout, at most one
\* succeeds; at most one pool connection is held as the transaction
\* connection, and no checked-out connection is lost without a release.
C28_OverlappingBegin ==
  /\ \A i, j \in 1..Len(reply.tr) :
       (/\ reply.tr[i].op = "beginTransaction"
        /\ reply.tr[j].op = "beginTransaction"
        /\ reply.tr[i].id \in reply.tr[j].over)
         => reply.tr[i].threw \/ reply.tr[j].threw
  /\ ad.checkedOut <= 1
  /\ Leaked(ad) = 0

----------------------------------------------------------------------------
(* The adapter specification: one adapter instance of any kind, its public *)
(* methods called one after the other, each call running to completion.    *)

\* the events of trace tr that open or close a transaction
TxEvents(tr) ==
  { i \in 1..Len(tr) :
      \/ tr[i].ev = "beginTransaction" /\ tr[i].ph = "ret"
      \/ tr[i].ev \in {"commitTransaction", "rollbackTransaction"} /\ tr[i].ph = "call" }

\* the events of trace tr that end a connect() or start a disconnect()
ConnectionEvents(tr) ==
  { i \in 1..Len(tr) :
      \/ tr[i].ev = "connect" /\ tr[i].ph \in {"ret", "throw"}
      \/ tr[i].ev = "disconnect" /\ tr[i].ph = "call" }

\* hist.open: a beginTransaction() has succeeded and no commitTransaction() or
\* rollbackTransaction() has been called since;
\* hist.connectCalled: connect() has been called on the adapter;
\* hist.live: the last connect() succeeded and disconnect() has not been
\* called since
Record(h, tr) ==
  [ open |-> IF TxEvents(tr) = {}
               THEN h.open
               ELSE LET n == CHOOSE i \in TxEvents(tr) : \A j \in TxEvents(tr) : j <= i
                    IN  tr[n].ev = "beginTransaction",
    connectCalled |-> h.connectCalled
                        \/ \E i \in 1..Len(tr) : tr[i].ev = "connect" /\ tr[i].ph = "call",
    live |-> IF ConnectionEvents(tr) = {}
               THEN h.live
               ELSE LET n == CHOOSE i \in ConnectionEvents(tr) :
                                \A j \in ConnectionEvents(tr) : j <= i
                    IN  tr[n].ev = "connect" /\ tr[n].ph = "ret" ]

\* the caller issues `op` and the method runs to one of its outcomes
Do(op, ops, table, where, limit, outcomes) ==
  /\ last.op = "none"
  /\ \E r \in outcomes :
       /\ ad' = r.ad
       /\ last' = [ op |-> op, ops |-> ops, table |-> table, where |-> where,
                    limit |-> limit, pre |-> ad, was |-> hist,
                    threw |-> r.threw, err |-> r.err, val |-> r.val, tr |-> r.tr ]
       /\ hist' = Record(hist, r.tr)
  /\ UNCHANGED registryVars

Plain(op, outcomes) == Do(op, <<>>, <<>>, <<>>, 0, Call(op, 0, outcomes))

Connect == Plain("connect", connect(ad))

Disconnect == Plain("disconnect", disconnect(ad))

BeginTransaction == Plain("beginTransaction", beginTransaction(ad))

CommitTransaction == Plain("commitTransaction", commitTransaction(ad))

RollbackTransaction == Plain("rollbackTransaction", rollbackTransaction(ad))

EnsureConnection == Plain("ensureConnection", ensureConnection(ad))

ExecuteQuery ==
  \E q \in {Str(ValidQuery(ad.type))} :
    Do("executeQuery", <<[query |-> q, parameters |-> "array"]>>, <<>>, <<>>, 0,
       Call("executeQuery", 1, executeQuery(ad, q, "array", 1)))

SafeExecuteQuery ==
  \E q \in Queries(ad.type), p \in ParameterValues :
    Do("safeExecuteQuery", <<[query |-> q, parameters |-> p]>>, <<>>, <<>>, 0,
       Call("safeExecuteQuery", 0, safeExecuteQuery(ad, q, p)))

ExecuteBatch ==
  \E ops \in Operations(ad.type) :
    Do("executeBatch", ops, <<>>, <<>>, 0, Call("executeBatch", 0, executeBatch(ad, ops)))

ExportTableData ==
  \E t \in TableNames, w \in WhereClauses, limit \in {0, 1} :
    Do("exportTableData", <<>>, t, w, limit,
       Call("exportTableData", 0, exportTableData(ad, t, w, limit)))

GetTables == Plain("getTables", getTables(ad))

GetTableInfo ==
  \E t \in TableNames :
    Do("getTableInfo", <<>>, t, <<>>, 0, Call("getTableInfo", 0, getTableInfo(ad, t)))

GetDatabaseStats == Plain("getDatabaseStats", getDatabaseStats(ad))

ValidateConnection == Plain("validateConnection", validateConnection(ad))

ImportBatch ==
  \E t \in TableNames, rows \in 0..MaxOps, skip \in BOOLEAN :
    Do("importBatch", <<>>, t, <<>>, 0, Call("importBatch", 0, importBatch(ad, t, rows, skip)))

\* the caller has its answer; the next call can be issued
Settle ==
  /\ last.op # "none"
  /\ last' = NoCall
  /\ UNCHANGED <<ad, hist>>
  /\ UNCHANGED registryVars

InitAdapter ==
  /\ ad \in { createDatabase(type) : type \in getSupportedTypes }
  /\ hist = NoHistory
  /\ last = NoCall
  /\ RegistryConstructed

NextAdapter ==
  \/ Connect
  \/ Disconnect
  \/ BeginTransaction
  \/ CommitTransaction
  \/ RollbackTransaction
  \/ EnsureConnection
  \/ ExecuteQuery
  \/ SafeExecuteQuery
  \/ ExecuteBatch
  \/ ExportTableData
  \/ ImportBatch
  \/ GetTables
  \/ GetTableInfo
  \/ GetDatabaseStats
  \/ ValidateConnection
  \/ Settle

SpecAdapter == InitAdapter /\ [][NextAdapter]_vars

----------------------------------------------------------------------------
(* Properties of the adapter specification *)

\* the native driver calls of a trace
Natives(tr) == { i \in 1..Len(tr) : tr[i].ph = "native" }

\* the calls of method `name` in a trace
CallsOf(tr, name) == { i \in 1..Len(tr) : tr[i].ev = name /\ tr[i].ph = "call" }

TransactionEnders == {"commitTransaction", "rollbackTransaction"}

\* C2: for every adapter kind, a beginTransaction() issued after a successful
\* beginTransaction() with no commitTransaction() or rollbackTransaction() in
\* between fails with 'Transaction already in progress'.
C2_SecondBeginFails ==
  (last.op = "beginTransaction" /\ last.was.open)
    => (last.threw /\ last.err.msg = "Transaction already in progress")

\* C3: for every adapter kind, isInTransaction() is false on a new adapter,
\* true after a successful beginTransaction(), and false again after a
\* successful commitTransaction() or rollbackTransaction().
C3_TwoStateMachine ==
  /\ (ad = createDatabase(ad.type)) => ~isInTransaction(ad)
  /\ (last.op = "beginTransaction" /\ ~last.threw) => isInTransaction(ad)
  /\ (last.op \in TransactionEnders /\ ~last.threw) => ~isInTransaction(ad)

\* C4: for every adapter kind, commitTransaction() and rollbackTransaction()
\* called while no transaction is in progress fail with 'No transaction in
\* progress', before any native call, and leave the adapter idle.
C4_IdleCommitRollbackFail ==
  (last.op \in TransactionEnders /\ ~isInTransaction(last.pre))
    => /\ last.threw
       /\ last.err.msg = "No transaction in progress"
       /\ Natives(last.tr) = {}
       /\ ~isInTransaction(ad)

\* the executeQuery calls of an operation list that threw
FailedOperations(tr) ==
  { i \in 1..Len(tr) : tr[i].ev = "executeQuery" /\ tr[i].ph = "throw" /\ tr[i].at >= 1 }

\* C5: when an operation's executeQuery fails during executeBatch, no later
\* operation is executed, rollbackTransaction() is invoked before executeBatch
\* throws, and executeBatch throws the failing operation's own error (as
\* handleError gives it back).
C5_BatchFailure ==
  last.op = "executeBatch" =>
    \A i \in FailedOperations(last.tr) :
      /\ \A j \in CallsOf(last.tr, "executeQuery") : last.tr[j].at >= 1 => j < i
      /\ \E j \in CallsOf(last.tr, "rollbackTransaction") : j > i
      /\ last.threw
      /\ last.err = handleError(ad.type, last.tr[i].err)

\* the calls executeBatch itself makes, in order: the transaction methods and
\* the executeQuery of each operation (executeQuery calls made inside another
\* method carry the index 0)
BatchSteps(tr) ==
  SelectSeq(tr, LAMBDA e :
    /\ e.ph # "native"
    /\ \/ e.ev \in {"beginTransaction"} \cup TransactionEnders
       \/ e.ev = "executeQuery" /\ e.at >= 1)

\* begin, then call and return of each operation in list order, then commit
ExpectedBatchSteps(n) ==
  <<Ev("beginTransaction", "call", 0, NoError), Ev("beginTransaction", "ret", 0, NoError)>>
    \o [ k \in 1..(2 * n) |->
           Ev("executeQuery", IF k % 2 = 1 THEN "call" ELSE "ret", (k + 1) \div 2, NoError) ]
    \o <<Ev("commitTransaction", "call", 0, NoError),
         Ev("commitTransaction", "ret", 0, NoError)>>

\* C6: a successful executeBatch(ops) calls beginTransaction once, then
\* executeQuery for each operation in list order, each completed before the
\* next is issued, then commitTransaction once, and returns one result per
\* operation in the order of ops.
C6_BatchSuccess ==
  (last.op = "executeBatch" /\ ~last.threw)
    => /\ BatchSteps(last.tr) = ExpectedBatchSteps(Len(last.ops))
       /\ last.val = [ i \in 1..Len(last.ops) |-> Result(last.ops[i].query) ]

\* a batch of two different operations has succeeded
C6_Witness ==
  /\ last.op = "executeBatch"
  /\ ~last.threw
  /\ Len(last.ops) >= 2
  /\ last.ops[1] # last.ops[2]
  /\ Natives(last.tr) # {}

SafeSteps == <<"validateQuery", "validateParameters", "ensureConnection", "executeQuery">>

\* the calls safeExecuteQuery itself makes, with their returns and throws
SafeStepEvents(tr) ==
  SelectSeq(tr, LAMBDA e :
    /\ e.ph # "native"
    /\ \/ e.ev \in {"validateQuery", "validateParameters", "ensureConnection"}
       \/ e.ev = "executeQuery" /\ e.at >= 1)

\* the inputs the validation of safeExecuteQuery has to reject: a query that
\* is no string or is empty, '; DROP TABLE x' in a letter case, parameters
\* that are an object and not an array
RejectedInput(call) ==
  \/ ~call.ops[1].query.isString
  \/ call.ops[1].query.text = <<>>
  \/ call.ops[1].query \in DropTableX(call.pre.type)
  \/ call.ops[1].parameters = "object"

ToolOperations == {"safeExecuteQuery", "executeBatch", "exportTableData", "importBatch"}

\* C8: no query that validateQuery rejects reaches the native backend through
\* a tool: every query a tool hands to the backend has passed validateQuery.
C8_EveryQueryValidated ==
  last.op \in ToolOperations =>
    \A i \in Natives(last.tr) :
      last.tr[i].at >= 1 =>
        \A r \in validateQuery(last.pre, QuerySent(last, last.tr[i].at)) : ~r.threw

\* the native statements that open and close a transaction on a pooled adapter
TransactionStatements == {"BEGIN", "START TRANSACTION", "COMMIT", "ROLLBACK"}

\* C9: on the pooled adapters the connection beginTransaction() checked out is
\* back in the pool after a successful commit, a successful rollback and after
\* an error of the native BEGIN, COMMIT or ROLLBACK.
C9_TransactionConnectionReleased ==
  (/\ ad.type \in PooledTypes
   /\ last.op \in {"beginTransaction"} \cup TransactionEnders
   /\ \/ last.op \in TransactionEnders /\ ~last.threw
      \/ last.threw /\ last.err.msg \in TransactionStatements)
    => (ad.checkedOut = 0 /\ ~ad.transactionClient)

\* C10: for every adapter kind isConnected() is false before the first
\* connect(), true after a successful connect(), false after a disconnect(),
\* and always equal to (connected flag set and native handle non-null).
C10_IsConnected ==
  /\ ~hist.connectCalled => ~isConnected(ad)
  /\ (last.op = "connect" /\ ~last.threw) => isConnected(ad)
  /\ (last.op = "disconnect" /\ ~last.threw) => ~isConnected(ad)
  /\ isConnected(ad) = (ad.connected /\ ad.handle)

\* the connect() calls of a trace that threw
FailedConnects(tr) == { i \in 1..Len(tr) : tr[i].ev = "connect" /\ tr[i].ph = "throw" }

\* C11: ensureConnection() calls connect() exactly once on an adapter that is
\* not connected, never on an adapter whose last connect() succeeded and that
\* has not been disconnected since, and when its connect() fails the error
\* propagates and connect() is not tried again.
C11_EnsureConnectionOnce ==
  last.op = "ensureConnection" =>
    /\ ~isConnected(last.pre) => Cardinality(CallsOf(last.tr, "connect")) = 1
    /\ last.was.live => CallsOf(last.tr, "connect") = {}
    /\ \A i \in FailedConnects(last.tr) :
         /\ last.threw
         /\ last.err = last.tr[i].err
         /\ Cardinality(CallsOf(last.tr, "connect")) = 1

\* the operations that read or write the backend's data
DataOperations == {"executeQuery", "getTables", "getTableInfo", "getDatabaseStats"}

\* the messages of the not-connected errors
NotConnectedMessages == {"Database not connected", "Not connected to database"}

\* C18: a data operation (executeQuery, getTables, getTableInfo,
\* getDatabaseStats) called on an adapter of any kind on which connect() has
\* never been called throws a not-connected error and makes no native call.
C18_DataOperationBeforeConnect ==
  (last.op \in DataOperations /\ ~last.was.connectCalled) =>
    /\ last.threw
    /\ last.err.msg \in NotConnectedMessages
    /\ Natives(last.tr) = {}

\* C19: getTableInfo(name) on a connected adapter of any kind, for a name the
\* backend does not hold and with the backend answering every native call,
\* returns null: it neither throws nor returns a descriptor.
C19_MissingTableIsNull ==
  (last.op = "getTableInfo" /\ last.was.live /\ last.table # BackendTable
     /\ Rejected(last.tr) = {}) =>
    /\ ~last.threw
    /\ last.val = <<>>

\* the values a driver can reject with: an Error, and a value that is none
ThrownValues ==
  { [isError |-> b, msg |-> "boom", at |-> 1, prefix |-> ""] : b \in BOOLEAN }

\* C22: handleError of every adapter kind returns an Error value as it is
\* and turns any other value into an Error whose message carries the
\* backend's prefix; and an Error the native driver rejects with inside
\* executeQuery is the error safeExecuteQuery throws, message unchanged.
C22_ErrorNormalization ==
  /\ \A type \in getSupportedTypes, e \in ThrownValues :
       IF e.isError
         THEN handleError(type, e) = e
         ELSE /\ handleError(type, e).isError
              /\ handleError(type, e).prefix = ErrorPrefix(type)
              /\ handleError(type, e).msg = e.msg
  /\ last.op = "safeExecuteQuery" =>
       \A i \in Rejected(last.tr) :
         (/\ last.tr[i].err.isError
          /\ \E j \in 1..(i - 1) : last.tr[j].ev = "executeQuery" /\ last.tr[j].ph = "call")
           => /\ last.threw
              /\ last.err = last.tr[i].err

\* C23: executeBatch called while a transaction is in progress on the adapter
\* fails, the transaction is still in progress afterwards, and no
\* commitTransaction() or rollbackTransaction() has been called on it.
C23_BatchInsideTransaction ==
  (last.op = "executeBatch" /\ isInTransaction(last.pre)) =>
    /\ last.threw
    /\ isInTransaction(ad)
    /\ \A i \in 1..Len(last.tr) : last.tr[i].ev \notin TransactionEnders

\* the step of executeBatch that failed first: begin, an operation, or commit
FirstFailedStep(tr) ==
  { i \in 1..Len(tr) :
      /\ tr[i].ph = "throw"
      /\ \/ tr[i].ev \in {"beginTransaction", "commitTransaction"}
         \/ tr[i].ev = "executeQuery" /\ tr[i].at >= 1
      /\ \A j \in 1..(i - 1) :
           ~(/\ tr[j].ph = "throw"
             /\ \/ tr[j].ev \in {"beginTransaction", "commitTransaction"}
                \/ tr[j].ev = "executeQuery" /\ tr[j].at >= 1) }

\* C24: executeBatch called on an idle adapter leaves the adapter idle,
\* whether it returns or throws, and the error it throws is the error of the
\* step that failed first, not an error of rollbackTransaction().
C24_BatchLeavesIdle ==
  (last.op = "executeBatch" /\ ~isInTransaction(last.pre)) =>
    /\ ~isInTransaction(ad)
    /\ last.threw =>
         \E i \in FirstFailedStep(last.tr) :
           last.err = handleError(ad.type, last.tr[i].err)

\* the transaction method rejects in every outcome, with the given message
RejectedWith(outcomes, msg) ==
  \A r \in outcomes : r.threw /\ r.err.msg = msg

\* C25: after disconnect() has completed, isInTransaction() is false, and a
\* beginTransaction() made after a following successful connect() is not
\* rejected with 'Transaction already in progress'; and the adapter is never
\* in a state where beginTransaction, commitTransaction and
\* rollbackTransaction are all rejected by the transaction-state checks.
C25_DisconnectEndsTransaction ==
  /\ (last.op = "disconnect" /\ ~last.threw) =>
       /\ ~isInTransaction(ad)
       /\ \A c \in connect(ad) :
            ~c.threw =>
              ~RejectedWith(beginTransaction(c.ad), "Transaction already in progress")
  /\ ~(/\ RejectedWith(beginTransaction(ad), "Transaction already in progress")
       /\ RejectedWith(commitTransaction(ad), "No transaction in progress")
       /\ RejectedWith(rollbackTransaction(ad), "No transaction in progress"))

\* C26: a beginTransaction() that fails on an idle adapter (not connected,
\* the pool checkout fails, or the native BEGIN fails) leaves the adapter
\* idle: isInTransaction() is false and a later beginTransaction() is not
\* rejected with 'Transaction already in progress'.
C26_FailedBeginLeavesIdle ==
  (last.op = "beginTransaction" /\ last.threw /\ ~isInTransaction(last.pre)) =>
    /\ ~isInTransaction(ad)
    /\ ~RejectedWith(beginTransaction(ad), "Transaction already in progress")

\* C30: on an adapter of any kind on which connect() was never called, and on
\* one whose disconnect() has completed, validateConnection() returns false
\* and makes no call of the native driver.
C30_ValidateWithoutHandle ==
  /\ (last.op = "validateConnection" /\ ~last.was.connectCalled) =>
       /\ last.val = <<FALSE>>
       /\ Natives(last.tr) = {}
  /\ (last.op = "disconnect" /\ ~last.threw) =>
       \A v \in validateConnection(ad) :
         /\ v.val = <<FALSE>>
         /\ Natives(v.tr) = {}

====
